---------------------------- MODULE Spec2Model ----------------------------
(***************************************************************************)
(* Model of the validation stage of the Seoul free-shuttle pipeline        *)
(* (src/agents/validator.py, class JSONValidator): validate_data,          *)
(* fix_common_issues, generate_final_json, calculate_quality_score and     *)
(* the control flow of JSONValidator.run; of the coordinate stage before   *)
(* it (src/agents/geocoder.py, GeocodingService.geocode_routes); and of    *)
(* the text functions of src/agents/nlp_extractor.py (StopExtractor).      *)
(*                                                                         *)
(* Encoding of JSON values.                                                *)
(*   - Text fields are TLA+ strings.  Absent marks a key that is missing   *)
(*     from the dict, Null the JSON value null (Python None); every other   *)
(*     string, the empty one included, is itself.  The module's strings    *)
(*     are ASCII, so the Korean literals of the source are transliterated; *)
(*     the original is given beside each.                                  *)
(*   - A coordinate is a record [t, v]: t is the JSON type ("num", "str",  *)
(*     "bool", "null") and v, for a number, the value in hundredths of a   *)
(*     degree (37.42 is 3742); JSON numbers are finite.  Python's bool is  *)
(*     an int: true is the number 1 (100 hundredths).                      *)
(*   - Percentages are kept in thousandths of a percent before rounding    *)
(*     and in tenths after round(x, 1).                                    *)
(***************************************************************************)
EXTENDS Integers, Sequences, FiniteSets, TLC

VARIABLES
    pc,                 \* position inside the run of the stage
    input,              \* the document as loaded from geocoded_routes.json
    data,               \* local `data` of run
    validation,         \* local `validation` of run
    validation_errors,  \* self.validation_errors
    validation_warnings,\* self.validation_warnings
    final_data,         \* local `final_data` of run
    quality,            \* local `quality` of run
    written,            \* the artifacts run has written
    steps,              \* the calls run has made so far, in order
    reports,            \* the reports validate_data has returned so far, in order
    extracted,          \* the document of extracted_routes.json
    cache,              \* GeocodingService.cache
    block_text,         \* parse_route_block: argument `text`
    block_district,     \* parse_route_block: argument `district`
    parsed,             \* parse_route_block: the fields of the dict evaluated so far
    stop_list,          \* extract_stops: local `stops`; deduplicate_stops: argument
    unique,             \* deduplicate_stops: the list returned
    full_text,          \* split_by_district: argument `text`
    todo,               \* split_by_district: the lines still to be read
    current_district,   \* split_by_district: local `current_district`
    current_lines,      \* split_by_district: local `current_lines`
    blocks,             \* split_by_district: local `blocks`
    stages_arg,         \* run_pipeline: argument `stages`
    skip_stages,        \* run_pipeline: argument `skip_stages`
    continue_on_error,  \* run_pipeline: argument `continue_on_error`
    stages_to_run,      \* run_pipeline: the part of `stages_to_run` not yet run
    results,            \* PipelineOrchestrator.results
    pipeline_errors,    \* PipelineOrchestrator.errors
    completed,          \* run_pipeline: local `completed`
    failed,             \* run_pipeline: local `failed`
    files,              \* the artifacts on disk during run_pipeline
    pipeline_report,    \* run_pipeline: the report returned
    heap,               \* the list objects of the validators, by identity
    self_lists,         \* the lists each validator's validation_errors and
                        \* validation_warnings are bound to
    callers,            \* the validate_data calls of two callers
    parallel,           \* whether the two calls may overlap in time
    stats,              \* GeocodingService.stats
    lookups,            \* the geocode calls made so far, in order
    fb_place,           \* geocode_fallback: argument `place`
    fb_district,        \* geocode_fallback: argument `district`
    fb_coords           \* geocode_fallback: the value returned

vars == <<pc, input, data, validation, validation_errors, validation_warnings,
          final_data, quality, written, steps, reports, extracted, cache,
          block_text, block_district, parsed, stop_list, unique,
          full_text, todo, current_district, current_lines, blocks,
          stages_arg, skip_stages, continue_on_error, stages_to_run, results,
          pipeline_errors, completed, failed, files, pipeline_report,
          heap, self_lists, callers, parallel, stats, lookups,
          fb_place, fb_district, fb_coords>>

validator_vars == <<pc, input, data, validation, validation_errors, validation_warnings,
                    final_data, quality, written, steps, reports>>
geocoder_vars == <<extracted, cache>>
extractor_vars == <<block_text, block_district, parsed, stop_list, unique>>
segmenter_vars == <<full_text, todo, current_district, current_lines, blocks>>
orchestrator_vars == <<stages_arg, skip_stages, continue_on_error, stages_to_run,
                       results, pipeline_errors, completed, failed, files,
                       pipeline_report>>
caller_vars == <<heap, self_lists, callers, parallel>>
lookup_vars == <<stats, lookups>>
fallback_vars == <<fb_place, fb_district, fb_coords>>
services_vars == <<orchestrator_vars, caller_vars, lookup_vars, fallback_vars>>

---------------------------------------------------------------------------
(* Python values                                                           *)

Absent == "~absent"
Null == "~null"

\* dict.get(key): None when the key is missing
Get(v) == IF v = Absent THEN Null ELSE v

\* dict.get(key, default)
GetDefault(v, default) == IF v = Absent THEN default ELSE v

\* truth value of a text field fetched with .get()
Truthy(v) == v \notin {Absent, Null, ""}

Num(v) == [t |-> "num", v |-> v]
NullC == [t |-> "null", v |-> 0]
StrC == [t |-> "str", v |-> 0]
TrueC == [t |-> "bool", v |-> 100]

\* `x is None` for a coordinate fetched with .get()
IsNone(c) == c.t = "null"

\* isinstance(x, (int, float))
IsNumber(c) == c.t \in {"num", "bool"}

\* truth value of a coordinate: None and 0 are false, a non-empty string is true
TruthyC(c) == CASE c.t = "null" -> FALSE
                [] c.t \in {"num", "bool"} -> c.v # 0
                [] OTHER -> TRUE

RECURSIVE Concat(_)
\* the concatenation of a sequence of sequences (list.extend in a loop)
Concat(ss) == IF ss = <<>> THEN <<>> ELSE Head(ss) \o Concat(Tail(ss))

RECURSIVE Sum(_)
Sum(s) == IF s = <<>> THEN 0 ELSE Head(s) + Sum(Tail(s))

Min(a, b) == IF a < b THEN a ELSE b

\* the sequences over S of length at most n
SeqUpTo(S, n) == UNION {[1..k -> S] : k \in 0..n}

---------------------------------------------------------------------------
(* config.py                                                               *)

\* keys of SEOUL_DISTRICTS, in the order of the source
SEOUL_DISTRICTS ==
    {"Jongno-gu", "Jung-gu", "Yongsan-gu", "Seongdong-gu", "Gwangjin-gu",
     "Dongdaemun-gu", "Jungnang-gu", "Seongbuk-gu", "Gangbuk-gu", "Dobong-gu",
     "Nowon-gu", "Eunpyeong-gu", "Seodaemun-gu", "Mapo-gu", "Yangcheon-gu",
     "Gangseo-gu", "Guro-gu", "Geumcheon-gu", "Yeongdeungpo-gu", "Dongjak-gu",
     "Gwanak-gu", "Seocho-gu", "Gangnam-gu", "Songpa-gu", "Gangdong-gu"}

SCHEMA_VERSION == "1.0.0"

---------------------------------------------------------------------------
(* JSONValidator.__init__                                                  *)

min_lat == 3742
max_lat == 3772
min_lng == 12676
max_lng == 12718

---------------------------------------------------------------------------
(* Findings.  A message of the source is an f-string; here it is the       *)
(* record of its fixed text (kind) and of the values interpolated into it: *)
(* the bracketed context, the quoted stop name and the printed number.     *)

Msg(kind, ctx, subj, val) == [kind |-> kind, ctx |-> ctx, subj |-> subj, val |-> val]

NO_NAME == "NO_NAME"                \* "이름 없음", default of route.get("name")
UNKNOWN_STOP == "?"                 \* default of stop.get('name', '?')
NO_INFO == "NO_INFO"                \* "정보 없음"

NOT_NUMERIC == "coordinate is not a number"         \* "좌표가 숫자가 아님"
LAT_RANGE == "latitude out of range"                \* "위도 범위 초과: {lat}"
LNG_RANGE == "longitude out of range"               \* "경도 범위 초과: {lng}"
STOP_NO_NAME == "stop has no name"                  \* "정류장 이름 없음"
STOP_NO_COORD == "stop has no coordinates"          \* "좌표 없음"
ROUTE_NO_NAME == "route has no name"                \* "노선 이름 없음"
FEW_STOPS == "fewer than 2 stops"                   \* "정류장이 2개 미만"
NO_HOURS == "no operating hours"                    \* "운행시간 정보 없음"
NO_INTERVAL == "no interval"                        \* "배차간격 정보 없음"
DISTRICT_NO_NAME == "district has no name"          \* "자치구 이름 없음"
NOT_SEOUL == "not a district of Seoul"              \* "...는 서울시 자치구가 아님"
NO_ROUTES == "district has no routes"               \* "노선 정보 없음"
NO_DISTRICTS == "no district data"                  \* "자치구 데이터 없음"

---------------------------------------------------------------------------
(* JSONValidator: validation                                               *)

\* validate_coordinates without the test of lines 45-46: the longitude is not
\* compared with the box
validate_coordinates_lat_only(lat, lng) ==
    IF ~IsNumber(lat) \/ ~IsNumber(lng)
    THEN [ok |-> FALSE, msg |-> NOT_NUMERIC, val |-> 0]
    ELSE IF lat.v < min_lat \/ lat.v > max_lat
    THEN [ok |-> FALSE, msg |-> LAT_RANGE, val |-> lat.v]
    ELSE [ok |-> TRUE, msg |-> "OK", val |-> 0]

\* validate_coordinates with the comparisons of lines 42 and 45 made strict on
\* the box's side (<= and >=): the edges of the box are rejected
validate_coordinates_strict(lat, lng) ==
    IF ~IsNumber(lat) \/ ~IsNumber(lng)
    THEN [ok |-> FALSE, msg |-> NOT_NUMERIC, val |-> 0]
    ELSE IF lat.v <= min_lat \/ lat.v >= max_lat
    THEN [ok |-> FALSE, msg |-> LAT_RANGE, val |-> lat.v]
    ELSE IF lng.v <= min_lng \/ lng.v >= max_lng
    THEN [ok |-> FALSE, msg |-> LNG_RANGE, val |-> lng.v]
    ELSE [ok |-> TRUE, msg |-> "OK", val |-> 0]

\* the (bool, message) pair of validate_coordinates; the message is split into
\* its text and the number it prints
validate_coordinates(lat, lng) ==
    IF ~IsNumber(lat) \/ ~IsNumber(lng)
    THEN [ok |-> FALSE, msg |-> NOT_NUMERIC, val |-> 0]
    ELSE IF lat.v < min_lat \/ lat.v > max_lat
    THEN [ok |-> FALSE, msg |-> LAT_RANGE, val |-> lat.v]
    ELSE IF lng.v < min_lng \/ lng.v > max_lng
    THEN [ok |-> FALSE, msg |-> LNG_RANGE, val |-> lng.v]
    ELSE [ok |-> TRUE, msg |-> "OK", val |-> 0]

\* validate_stop without the branch of lines 60-61: a stop without coordinates
\* is passed over
validate_stop_skip_missing(stop, route_name) ==
    LET nameErr == IF ~Truthy(stop.name)
                   THEN <<Msg(STOP_NO_NAME, route_name, "", 0)>>
                   ELSE <<>>
        res == validate_coordinates(stop.lat, stop.lng)
        coordErr == IF ~IsNone(stop.lat) /\ ~IsNone(stop.lng) /\ ~res.ok
                    THEN <<Msg(res.msg, route_name, Get(stop.name), res.val)>>
                    ELSE <<>>
    IN  nameErr \o coordErr

validate_stop(stop, route_name) ==
    LET nameErr == IF ~Truthy(stop.name)
                   THEN <<Msg(STOP_NO_NAME, route_name, "", 0)>>
                   ELSE <<>>
        lat == stop.lat
        lng == stop.lng
        res == validate_coordinates(lat, lng)
        coordErr == IF IsNone(lat) \/ IsNone(lng)
                    THEN <<Msg(STOP_NO_COORD, route_name,
                               GetDefault(stop.name, UNKNOWN_STOP), 0)>>
                    ELSE IF ~res.ok
                    THEN <<Msg(res.msg, route_name, Get(stop.name), res.val)>>
                    ELSE <<>>
    IN  nameErr \o coordErr

\* the (errors, warnings) pair of validate_route
validate_route(route, district) ==
    LET route_name == GetDefault(route.name, NO_NAME)
        nameErr == IF ~Truthy(route.name)
                   THEN <<Msg(ROUTE_NO_NAME, district, "", 0)>>
                   ELSE <<>>
        stops == route.stops
        fewWarn == IF Len(stops) < 2
                   THEN <<Msg(FEW_STOPS, route_name, "", 0)>>
                   ELSE <<>>
        stopErrs == Concat([i \in 1..Len(stops) |-> validate_stop(stops[i], route_name)])
        hoursWarn == IF ~Truthy(route.hours)
                     THEN <<Msg(NO_HOURS, route_name, "", 0)>>
                     ELSE <<>>
        intervalWarn == IF ~Truthy(route.interval)
                        THEN <<Msg(NO_INTERVAL, route_name, "", 0)>>
                        ELSE <<>>
    IN  [errors |-> nameErr \o stopErrs,
         warnings |-> fewWarn \o hoursWarn \o intervalWarn]

\* the (errors, warnings) pair of validate_district
validate_district(district_data) ==
    LET district == Get(district_data.district)
        routes == district_data.routes
        res == [i \in 1..Len(routes) |-> validate_route(routes[i], district)]
        seoulWarn == IF district \notin SEOUL_DISTRICTS
                     THEN <<Msg(NOT_SEOUL, "", district, 0)>>
                     ELSE <<>>
        routesWarn == IF routes = <<>>
                      THEN <<Msg(NO_ROUTES, district, "", 0)>>
                      ELSE <<>>
    IN  IF ~Truthy(district)
        THEN [errors |-> <<Msg(DISTRICT_NO_NAME, "", "", 0)>>, warnings |-> <<>>]
        ELSE [errors |-> Concat([i \in 1..Len(routes) |-> res[i].errors]),
              warnings |-> seoulWarn \o routesWarn
                           \o Concat([i \in 1..Len(routes) |-> res[i].warnings])]

\* get_validation_result with warnings counted against validity
get_validation_result_strict(errors, warnings) ==
    [valid |-> Len(errors) = 0 /\ Len(warnings) = 0,
     errors |-> errors,
     warnings |-> warnings,
     error_count |-> Len(errors),
     warning_count |-> Len(warnings)]

get_validation_result(errors, warnings) ==
    [valid |-> Len(errors) = 0,
     errors |-> errors,
     warnings |-> warnings,
     error_count |-> Len(errors),
     warning_count |-> Len(warnings)]

\* validate_lists without the test of lines 130-132: a document without
\* districts gets no error
validate_lists_districts_only(doc) ==
    LET districts == doc.districts
        res == [i \in 1..Len(districts) |-> validate_district(districts[i])]
    IN  [errors |-> Concat([i \in 1..Len(districts) |-> res[i].errors]),
         warnings |-> Concat([i \in 1..Len(districts) |-> res[i].warnings])]

\* the values validate_data leaves in self.validation_errors and
\* self.validation_warnings
validate_lists(doc) ==
    LET districts == doc.districts
        res == [i \in 1..Len(districts) |-> validate_district(districts[i])]
    IN  IF districts = <<>>
        THEN [errors |-> <<Msg(NO_DISTRICTS, "", "", 0)>>, warnings |-> <<>>]
        ELSE [errors |-> Concat([i \in 1..Len(districts) |-> res[i].errors]),
              warnings |-> Concat([i \in 1..Len(districts) |-> res[i].warnings])]

validate_data(doc) ==
    LET l == validate_lists(doc)
    IN  get_validation_result(l.errors, l.warnings)

---------------------------------------------------------------------------
(* JSONValidator.fix_common_issues                                         *)

\* keeps_stop without the call of line 166: any stop with coordinates is kept
keeps_stop_unchecked(stop) ==
    /\ TruthyC(stop.lat)
    /\ TruthyC(stop.lng)

\* the test of lines 165-167 that lets a stop into valid_stops
keeps_stop(stop) ==
    /\ TruthyC(stop.lat)
    /\ TruthyC(stop.lng)
    /\ validate_coordinates(stop.lat, stop.lng).ok

valid_stops_of(route) == SelectSeq(route.stops, keeps_stop)

\* fix_routes with line 170 off by one: len(valid_stops) > 2
fix_routes_more_than_two(routes) ==
    LET kept(route) == Len(SelectSeq(route.stops, keeps_stop)) > 2
        fixedOf(route) == [route EXCEPT !.stops = SelectSeq(route.stops, keeps_stop)]
        survivors == SelectSeq(routes, kept)
    IN  [i \in 1..Len(survivors) |-> fixedOf(survivors[i])]

\* fix_routes without the assignment of line 171: a route that survives keeps
\* the stops it came with
fix_routes_stops_untouched(routes) ==
    LET kept(route) == Len(SelectSeq(route.stops, keeps_stop)) >= 2
    IN  SelectSeq(routes, kept)

\* fix_routes with line 170 testing the route's stops as they came in
\* (len(route["stops"]) >= 2) instead of valid_stops
fix_routes_count_all(routes) ==
    LET kept(route) == Len(route.stops) >= 2
        fixedOf(route) == [route EXCEPT !.stops = SelectSeq(route.stops, keeps_stop)]
        survivors == SelectSeq(routes, kept)
    IN  [i \in 1..Len(survivors) |-> fixedOf(survivors[i])]

\* lines 158-172: the routes of a district that survive, with their stops replaced
fix_routes(routes) ==
    LET kept(route) == Len(valid_stops_of(route)) >= 2
        fixedOf(route) == [route EXCEPT !.stops = valid_stops_of(route)]
        survivors == SelectSeq(routes, kept)
    IN  [i \in 1..Len(survivors) |-> fixedOf(survivors[i])]

fix_common_issues(doc) ==
    LET fixedOf(district_data) ==
            [district_data EXCEPT !.routes = fix_routes(district_data.routes)]
        all == [i \in 1..Len(doc.districts) |-> fixedOf(doc.districts[i])]
        kept(district_data) == district_data.routes # <<>>
    IN  [doc EXCEPT !.districts = SelectSeq(all, kept)]

---------------------------------------------------------------------------
(* JSONValidator.generate_final_json                                       *)

\* The district names of the model, in the order Python's str comparison gives
\* their originals: "" < "강남구" < "부산진구" < "종로구".
NameOrder == <<"", "Gangnam-gu", "Busanjin-gu", "Jongno-gu">>

NameRank(name) == CHOOSE i \in 1..Len(NameOrder) : NameOrder[i] = name

\* f"{district_data['district']} 셔틀"
ShuttleName(district) ==
    CASE district = "Gangnam-gu" -> "Gangnam-gu shuttle"
      [] district = "Busanjin-gu" -> "Busanjin-gu shuttle"
      [] district = "Jongno-gu" -> "Jongno-gu shuttle"
      [] district = "" -> " shuttle"
      [] OTHER -> "None shuttle"

RECURSIVE InsertSorted(_, _)
\* e placed after every element of the sorted s whose key is not greater
InsertSorted(s, e) ==
    IF s = <<>> THEN <<e>>
    ELSE IF NameRank(e.district) < NameRank(Head(s).district)
    THEN <<e>> \o s
    ELSE <<Head(s)>> \o InsertSorted(Tail(s), e)

RECURSIVE SortByDistrict(_)
\* list.sort(key=lambda x: x["district"]): stable, ascending
SortByDistrict(s) ==
    IF s = <<>> THEN <<>>
    ELSE InsertSorted(SortByDistrict(SubSeq(s, 1, Len(s) - 1)), s[Len(s)])

\* lines 197-202
route_entry(route, district) ==
    [name |-> GetDefault(route.name, ShuttleName(district)),
     hours |-> GetDefault(route.hours, NO_INFO),
     interval |-> GetDefault(route.interval, NO_INFO),
     stops |-> route.stops]

\* lines 191-203
district_entry(district_data) ==
    [district |-> district_data.district,
     routes |-> [i \in 1..Len(district_data.routes) |->
                    route_entry(district_data.routes[i], district_data.district)]]

\* What generate_final_json does: it returns the final document, or raises.
\*   KeyError: district_data["district"] (line 192) on a dict without the key;
\*   TypeError: the sort of line 209 comparing None with a str or with None,
\*   which it does as soon as two entries are sorted and one name is None.
generate_final_json(doc) ==
    LET districts == doc.districts
        hasKey(d) == d.district # Absent
        hasRoutes(e) == e.routes # <<>>
        entries == [i \in 1..Len(districts) |-> district_entry(districts[i])]
        emitted == SelectSeq(entries, hasRoutes)
        nullName == \E i \in 1..Len(emitted) : emitted[i].district = Null
    IN  IF \E i \in 1..Len(districts) : ~hasKey(districts[i])
        THEN [raised |-> "KeyError", value |-> <<>>]
        ELSE IF Len(emitted) >= 2 /\ nullName
        THEN [raised |-> "TypeError", value |-> <<>>]
        ELSE [raised |-> "",
              value |-> [schema_version |-> SCHEMA_VERSION,
                         source |-> "auto",
                         districts |-> SortByDistrict(emitted)]]

---------------------------------------------------------------------------
(* JSONValidator.calculate_quality_score                                   *)

NUM_DISTRICTS == 25
PERCENT == 100

\* round(p / q, 1) in tenths for p >= 0, q > 0, taking p / q exactly: to the
\* nearest tenth, a tie to the even one
RoundTenths(p, q) ==
    LET n == 10 * p
        fl == n \div q
        r == n % q
    IN  IF 2 * r < q THEN fl
        ELSE IF 2 * r > q THEN fl + 1
        ELSE IF fl % 2 = 0 THEN fl ELSE fl + 1

\* district_coverage_of without the min(..., 100) of line 224
district_coverage_uncapped(total_districts) == total_districts * PERCENT

\* line 224, times NUM_DISTRICTS: min(total_districts / 25 * 100, 100)
district_coverage_of(total_districts) ==
    Min(total_districts * PERCENT, PERCENT * NUM_DISTRICTS)

\* r.get(field) and r.get(field) != "정보 없음"
has_info(v) == Truthy(v) /\ v # NO_INFO

all_routes(doc) == Concat([i \in 1..Len(doc.districts) |-> doc.districts[i].routes])

\* The report of calculate_quality_score.  The three percentages are in tenths
\* (round(x, 1)); district_coverage and info_completeness before rounding are the
\* fractions cov / NUM_DISTRICTS and comp / (2 * total_routes).
calculate_quality_score(doc) ==
    LET routes == all_routes(doc)
        total_districts == Len(doc.districts)
        total_routes == Len(routes)
        total_stops == Sum([i \in 1..Len(routes) |-> Len(routes[i].stops)])
        cov == district_coverage_of(total_districts)
        has_hours == Cardinality({i \in 1..Len(routes) : has_info(routes[i].hours)})
        has_interval == Cardinality({i \in 1..Len(routes) : has_info(routes[i].interval)})
        comp == (has_hours + has_interval) * PERCENT
        den == IF total_routes > 0 THEN 2 * total_routes ELSE 1
    IN  [district_coverage |-> RoundTenths(cov, NUM_DISTRICTS),
         info_completeness |-> IF total_routes > 0 THEN RoundTenths(comp, den) ELSE 0,
         total_districts |-> total_districts,
         total_routes |-> total_routes,
         total_stops |-> total_stops,
         avg_stops_per_route |-> IF total_routes > 0
                                 THEN RoundTenths(total_stops, total_routes) ELSE 0,
         overall_score |-> RoundTenths(cov * den
                                         + (IF total_routes > 0 THEN comp ELSE 0)
                                           * NUM_DISTRICTS,
                                       2 * NUM_DISTRICTS * den)]

---------------------------------------------------------------------------
(* The documents run may find in geocoded_routes.json                      *)

MaxStops == 3           \* stops of a route, where every stop is varied
MaxRoutes == 2          \* routes of a district, where every route is varied
MaxDistricts == 2       \* districts of a document, where every district is varied
MaxEntries == 26        \* district entries of a document of repeated districts

Stop(name, lat, lng) == [name |-> name, lat |-> lat, lng |-> lng]
Route(name, hours, interval, stops) ==
    [name |-> name, hours |-> hours, interval |-> interval, stops |-> stops]
District(district, routes) == [district |-> district, routes |-> routes]
Doc(districts) == [districts |-> districts]

HOURS == "09:00~18:00"
INTERVAL == "30min"                 \* "30분"

\* latitudes and longitudes: the four edges of the bounding box and the values
\* next to them, Busan (35.10, 129.04), zero, null, a string and true
LatVals == {Num(min_lat - 1), Num(min_lat), Num(max_lat), Num(max_lat + 1),
            Num(3510), Num(0), NullC, StrC, TrueC}
LngVals == {Num(min_lng - 1), Num(min_lng), Num(max_lng), Num(max_lng + 1),
            Num(12904), NullC, StrC, TrueC}

GridStops == {Stop(n, lat, lng) : n \in {"S", "", Absent}, lat \in LatVals, lng \in LngVals}

Good1 == Stop("A", Num(min_lat), Num(min_lng))
Good2 == Stop("B", Num(max_lat), Num(max_lng))
Busan == Stop("C", Num(3510), Num(12904))
NoCoord == Stop("D", NullC, NullC)
NoName == Stop("", Num(3750), Num(12700))

BasicStops == {Good1, Good2, Busan, NoCoord, NoName}

OkRoute == Route("R1", HOURS, INTERVAL, <<Good1, Good2>>)
ShortRoute == Route("R2", HOURS, INTERVAL, <<Good1>>)
BareRoute == Route("R3", Null, Null, <<Good1, Good2>>)
BusanRoute == Route("R4", HOURS, INTERVAL, <<Good1, Busan, Good2>>)
LostRoute == Route("R5", HOURS, Null, <<Good1, NoCoord>>)

RouteKinds == {OkRoute, ShortRoute, BareRoute, BusanRoute, LostRoute}

DistrictNames == {"Jongno-gu", "Busanjin-gu", "", Null, Absent}

\* one route with two good stops and a third stop taken from the whole grid
GridDocs ==
    {Doc(<<District("Jongno-gu", <<Route("R1", HOURS, INTERVAL, <<Good1, Good2, s>>)>>)>>) :
        s \in GridStops}

\* one district with one route, the name, hours and interval of the route varied
AttrDocs ==
    {Doc(<<District("Jongno-gu", <<Route(n, h, i, r.stops)>>)>>) :
        n \in {"R1", "", Absent}, h \in {HOURS, NO_INFO, Null, Absent},
        i \in {INTERVAL, Null}, r \in RouteKinds}

\* one district with one route, the stops of the route varied
StopDocs ==
    {Doc(<<District("Jongno-gu", <<Route(n, h, INTERVAL, ss)>>)>>) :
        n \in {"R1", ""}, h \in {HOURS, Null}, ss \in SeqUpTo(BasicStops, MaxStops)}

\* one district with up to MaxRoutes routes
RoutesDocs ==
    {Doc(<<District(d, rs)>>) : d \in DistrictNames, rs \in SeqUpTo(RouteKinds, MaxRoutes)}

\* up to MaxDistricts districts, each with at most one route
DistrictDocs ==
    {Doc(ds) : ds \in SeqUpTo({District(d, rs) :
                                  d \in DistrictNames,
                                  rs \in {<<>>, <<OkRoute>>, <<ShortRoute>>, <<LostRoute>>}},
                              MaxDistricts)}

\* up to MaxEntries entries of one and the same district
WideDocs ==
    {Doc([i \in 1..n |-> District("Jongno-gu", <<r>>)]) :
        n \in 0..MaxEntries, r \in RouteKinds}

\* a stop object with a key besides name, lat and lng
Tagged == [name |-> "E", lat |-> Num(3750), lng |-> Num(12700), address |-> "Seoul"]

\* one district with one route that has a stop with a further key
TaggedDocs ==
    {Doc(<<District("Jongno-gu", <<Route("R1", HOURS, INTERVAL, ss)>>)>>) :
        ss \in {<<Good1, Tagged>>, <<Tagged, Good1, Good2>>, <<Tagged, NoCoord>>}}

Docs ==
    GridDocs \cup AttrDocs \cup StopDocs \cup RoutesDocs \cup DistrictDocs \cup WideDocs
        \cup TaggedDocs

---------------------------------------------------------------------------
(* JSONValidator.run, from the loaded document on                          *)

NONE == [none |-> TRUE]             \* a local not yet assigned

\* no StopExtractor call is under way
ExtractorIdle ==
    /\ block_text = NONE
    /\ block_district = NONE
    /\ parsed = NONE
    /\ stop_list = NONE
    /\ unique = NONE
    /\ full_text = NONE
    /\ todo = NONE
    /\ current_district = NONE
    /\ current_lines = NONE
    /\ blocks = NONE

\* no PipelineOrchestrator call is under way
OrchestratorIdle ==
    /\ stages_arg = NONE
    /\ skip_stages = NONE
    /\ continue_on_error = NONE
    /\ stages_to_run = NONE
    /\ results = NONE
    /\ pipeline_errors = NONE
    /\ completed = NONE
    /\ failed = NONE
    /\ files = NONE
    /\ pipeline_report = NONE

\* no validate_data call of the two callers is under way
CallersIdle ==
    /\ heap = NONE
    /\ self_lists = NONE
    /\ callers = NONE
    /\ parallel = NONE

\* no geocode call has been made
LookupIdle ==
    /\ stats = NONE
    /\ lookups = NONE

\* no geocode_fallback call has been made
FallbackIdle ==
    /\ fb_place = NONE
    /\ fb_district = NONE
    /\ fb_coords = NONE

\* none of the other services is in use
ServicesIdle == OrchestratorIdle /\ CallersIdle /\ LookupIdle /\ FallbackIdle

Init ==
    /\ input \in Docs
    /\ data = input
    /\ pc = "validate"
    /\ validation = NONE
    /\ validation_errors = <<>>
    /\ validation_warnings = <<>>
    /\ final_data = NONE
    /\ quality = NONE
    /\ written = {}
    /\ steps = <<>>
    /\ reports = <<>>
    /\ extracted = NONE
    /\ cache = NONE
    /\ ExtractorIdle
    /\ ServicesIdle

\* self.validate_data(data), lines 125-139, and the assignment of its result
CallValidate ==
    LET l == validate_lists(data)
    IN  /\ validation_errors' = l.errors
        /\ validation_warnings' = l.warnings
        /\ validation' = get_validation_result(l.errors, l.warnings)
        /\ steps' = Append(steps, "validate")
        /\ reports' = Append(reports, validation')

\* line 270, and the test of line 282
Validate ==
    /\ pc = "validate"
    /\ CallValidate
    /\ pc' = IF validation'.valid THEN "emit" ELSE "repair"
    /\ UNCHANGED <<geocoder_vars, extractor_vars, segmenter_vars, services_vars>>
    /\ UNCHANGED <<input, data, final_data, quality, written>>

\* line 284
Repair ==
    /\ pc = "repair"
    /\ data' = fix_common_issues(data)
    /\ steps' = Append(steps, "repair")
    /\ pc' = "revalidate"
    /\ UNCHANGED <<geocoder_vars, extractor_vars, segmenter_vars, services_vars>>
    /\ UNCHANGED <<input, validation, validation_errors, validation_warnings,
                   final_data, quality, written, reports>>

\* Revalidate with the test of line 282 repeated after it: a retry loop
Revalidate_retry ==
    /\ pc = "revalidate"
    /\ CallValidate
    /\ pc' = IF validation'.valid THEN "emit" ELSE "repair"
    /\ UNCHANGED <<geocoder_vars, extractor_vars, segmenter_vars, services_vars>>
    /\ UNCHANGED <<input, data, final_data, quality, written>>

\* line 285
Revalidate ==
    /\ pc = "revalidate"
    /\ CallValidate
    /\ pc' = "emit"
    /\ UNCHANGED <<geocoder_vars, extractor_vars, segmenter_vars, services_vars>>
    /\ UNCHANGED <<input, data, final_data, quality, written>>

\* line 290: an exception of generate_final_json leaves run
Emit ==
    /\ pc = "emit"
    /\ LET res == generate_final_json(data)
       IN  IF res.raised # ""
           THEN /\ pc' = res.raised
                /\ UNCHANGED final_data
           ELSE /\ pc' = "score"
                /\ final_data' = res.value
    /\ steps' = Append(steps, "emit")
    /\ UNCHANGED <<geocoder_vars, extractor_vars, segmenter_vars, services_vars>>
    /\ UNCHANGED <<input, data, validation, validation_errors, validation_warnings,
                   quality, written, reports>>

\* line 293
Score ==
    /\ pc = "score"
    /\ quality' = calculate_quality_score(final_data)
    /\ steps' = Append(steps, "score")
    /\ pc' = "save"
    /\ UNCHANGED <<geocoder_vars, extractor_vars, segmenter_vars, services_vars>>
    /\ UNCHANGED <<input, data, validation, validation_errors, validation_warnings,
                   final_data, written, reports>>

\* lines 300-322: both artifacts are written and run returns
Save ==
    /\ pc = "save"
    /\ written' = {"shuttle_routes.json", "validation_report.json"}
    /\ pc' = "done"
    /\ UNCHANGED <<geocoder_vars, extractor_vars, segmenter_vars, services_vars>>
    /\ UNCHANGED <<input, data, validation, validation_errors, validation_warnings,
                   final_data, quality, steps, reports>>

Next == Validate \/ Repair \/ Revalidate \/ Emit \/ Score \/ Save

Spec == Init /\ [][Next]_vars

---------------------------------------------------------------------------
(* GeocodingService.geocode_routes, and run on the document it writes      *)

\* what GeocodingService.geocode returns: None, or a pair (lat, lng)
NoResult == [found |-> FALSE, lat |-> 0, lng |-> 0]
Coords(lat, lng) == [found |-> TRUE, lat |-> lat, lng |-> lng]

\* the cache key of a stop name in a district, f"{place}_{district or ''}"
CacheKey(place, district) == <<place, district>>

\* geocode_routes on the document of extracted_routes.json, where geo gives
\* for each cache key what geocode returns for it
geocode_routes(routes_data, geo) ==
    LET stop_of(place, district) ==
            LET coords == geo[CacheKey(place, district)]
            IN  Stop(place, Num(coords.lat), Num(coords.lng))
        route_data_of(route, district) ==
            LET resolved == SelectSeq(route.stops,
                                      LAMBDA p : geo[CacheKey(p, district)].found)
            IN  [name |-> GetDefault(route.name, ShuttleName(district)),
                 hours |-> Get(route.hours),
                 interval |-> Get(route.interval),
                 stops |-> [k \in 1..Len(resolved) |-> stop_of(resolved[k], district)]]
        district_data_of(d) ==
            LET rs == [j \in 1..Len(d.routes) |-> route_data_of(d.routes[j], d.district)]
            IN  District(d.district, SelectSeq(rs, LAMBDA r : r.stops # <<>>))
        ds == [i \in 1..Len(routes_data.districts) |->
                  district_data_of(routes_data.districts[i])]
    IN  Doc(SelectSeq(ds, LAMBDA d : d.routes # <<>>))

MaxPlaces == 2          \* stop names of an extracted route

PlaceNames == <<"A", "B", "C", "D">>
Places == {PlaceNames[i] : i \in 1..Min(MaxPlaces, Len(PlaceNames))}

RouteNames == <<"R1", "R2", "R3", "R4">>

\* a place in Seoul, a place in Busan, and no result
Results == {NoResult, Coords(3750, 12700), Coords(3510, 12904)}

\* the sequences of 1 to n elements of S without a repetition
DistinctSeqs(S, n) ==
    {s \in SeqUpTo(S, n) :
        /\ s # <<>>
        /\ \A i \in 1..Len(s) : \A j \in 1..Len(s) : s[i] = s[j] => i = j}

\* The documents StopExtractor.run writes: "districts" maps each district name
\* to its routes (here the dict's items in order, the names distinct), every
\* district has a route, every route a stop, the stops of a route are distinct,
\* and hours and interval are a string or null.
\* one district with one route, its hours, interval and stops varied
ExtractedOne ==
    {Doc(<<District("Jongno-gu", <<Route("R1", h, i, ss)>>)>>) :
        h \in {HOURS, Null}, i \in {INTERVAL, Null}, ss \in DistinctSeqs(Places, MaxPlaces)}

\* one district with up to MaxRoutes routes
ExtractedRoutes ==
    {Doc(<<District("Jongno-gu",
                    [j \in 1..Len(rs) |-> Route(RouteNames[j], HOURS, Null, rs[j])])>>) :
        rs \in SeqUpTo({<<"A">>, <<"A", "B">>}, MaxRoutes) \ {<<>>}}

ExtractedNames == {NameOrder[i] : i \in 2..Min(MaxDistricts + 1, Len(NameOrder))}

\* up to MaxDistricts districts with one route of one stop each; no district
ExtractedDistricts ==
    {Doc([i \in 1..Len(ds) |-> District(ds[i], <<Route("R1", Null, INTERVAL, ss[i])>>)]) :
        ds \in DistinctSeqs(ExtractedNames, MaxDistricts) \cup {<<>>},
        ss \in [1..MaxDistricts -> {<<"A">>, <<"B">>}]}

ExtractedDocs == ExtractedOne \cup ExtractedRoutes \cup ExtractedDistricts

\* the cache keys geocode_routes asks for
KeysOf(routes_data) ==
    UNION {UNION {{CacheKey(d.routes[j].stops[k], d.district) :
                      k \in 1..Len(d.routes[j].stops)} : j \in 1..Len(d.routes)} :
              d \in {routes_data.districts[i] : i \in 1..Len(routes_data.districts)}}

\* GeocodingService.run has read extracted_routes.json
GeocodeInit ==
    /\ extracted \in ExtractedDocs
    /\ cache = <<>>
    /\ pc = "geocode"
    /\ input = NONE
    /\ data = NONE
    /\ validation = NONE
    /\ validation_errors = <<>>
    /\ validation_warnings = <<>>
    /\ final_data = NONE
    /\ quality = NONE
    /\ written = {}
    /\ steps = <<>>
    /\ reports = <<>>
    /\ ExtractorIdle
    /\ ServicesIdle

\* geocoder.py lines 293-301: geocode_routes with what geocode returns for each
\* key, which the cache then holds (lines 221-227); the result is written to
\* geocoded_routes.json, which JSONValidator.run loads (validator.py 265-266)
GeocodeRoutes ==
    /\ pc = "geocode"
    /\ \E geo \in [KeysOf(extracted) -> Results] :
          /\ cache' = geo
          /\ input' = geocode_routes(extracted, geo)
    /\ data' = input'
    /\ written' = {"geocoded_routes.json"}
    /\ pc' = "validate"
    /\ UNCHANGED <<extracted, validation, validation_errors, validation_warnings,
                   final_data, quality, steps, reports>>
    /\ UNCHANGED <<extractor_vars, segmenter_vars, services_vars>>

GeocodeNext == GeocodeRoutes \/ Validate \/ Repair \/ Revalidate \/ Emit \/ Score \/ Save

GeocodeSpec == GeocodeInit /\ [][GeocodeNext]_vars

---------------------------------------------------------------------------
(* Python strings of the extractor                                         *)

\* A str is the sequence of its characters.  A character is named by a TLA+
\* string: a digit, the space and a punctuation mark by itself, the newline by
\* "NL", the arrows by "->" and "<->", and a Hangul syllable by its
\* romanisation ("yeok" is 역); every other name is a Hangul syllable.
Digits == {"0", "1", "2", "3", "4", "5", "6", "7", "8", "9"}
Whitespaces == {" ", "NL"}                              \* \s
Punctuation == {",", ".", "(", ")", ":", "~", "-", "->", "<->"}

IsDigit(c) == c \in Digits                              \* \d
IsSpace(c) == c \in Whitespaces                         \* \s
IsHangul(c) == c \notin Digits \cup Whitespaces \cup Punctuation    \* [가-힣]

\* w is in s at index i
At(w, s, i) == i >= 1 /\ i + Len(w) - 1 <= Len(s) /\ SubSeq(s, i, i + Len(w) - 1) = w

\* `w in s`
In(w, s) == \E i \in 1..(Len(s) + 1) : At(w, s, i)

\* the index after the run of characters of class P that starts at index i
RunEnd(P(_), s, i) ==
    CHOOSE j \in i..(Len(s) + 1) :
        /\ \A k \in i..(j - 1) : P(s[k])
        /\ j = Len(s) + 1 \/ ~P(s[j])

\* s[i:]
From(s, i) == SubSeq(s, i, Len(s))

\* str.strip()
Strip(s) ==
    IF \A k \in 1..Len(s) : IsSpace(s[k]) THEN <<>>
    ELSE LET first == CHOOSE i \in 1..Len(s) :
                          ~IsSpace(s[i]) /\ \A k \in 1..(i - 1) : IsSpace(s[k])
             last == CHOOSE j \in 1..Len(s) :
                         ~IsSpace(s[j]) /\ \A k \in (j + 1)..Len(s) : IsSpace(s[k])
         IN  SubSeq(s, first, last)

\* str.isdigit()
IsDigitStr(s) == s # <<>> /\ \A k \in 1..Len(s) : IsDigit(s[k])

RECURSIVE SplitOn(_, _)
\* re.split on one character of the set seps, and str.split(sep)
SplitOn(seps, s) ==
    IF \A k \in 1..Len(s) : s[k] \notin seps THEN <<s>>
    ELSE LET i == CHOOSE i \in 1..Len(s) :
                      s[i] \in seps /\ \A k \in 1..(i - 1) : s[k] \notin seps
         IN  <<SubSeq(s, 1, i - 1)>> \o SplitOn(seps, From(s, i + 1))

RECURSIVE Join(_, _)
\* sep.join(ss)
Join(sep, ss) ==
    IF ss = <<>> THEN <<>>
    ELSE IF Len(ss) = 1 THEN ss[1]
    ELSE ss[1] \o sep \o Join(sep, Tail(ss))

---------------------------------------------------------------------------
(* config.STOP_PATTERNS                                                    *)

\* "역", "정류장", "사거리", "삼거리", "오거리", "주민센터", "구청", "시장",
\* "공원", "학교", "병원", "아파트", "마을", "입구", "앞", "건너"
stop_keywords ==
    << <<"yeok">>, <<"jeong", "ryu", "jang">>, <<"sa", "geo", "ri">>,
       <<"sam", "geo", "ri">>, <<"o", "geo", "ri">>,
       <<"ju", "min", "sen", "teo">>, <<"gu", "cheong">>, <<"si", "jang">>,
       <<"gong", "won">>, <<"hak", "gyo">>, <<"byeong", "won">>,
       <<"a", "pa", "teu">>, <<"ma", "eul">>, <<"ip", "gu">>, <<"ap">>,
       <<"geon", "neo">> >>

\* "운행", "시간", "배차", "간격", "분", "시", "노선", "안내", "문의", "연락처"
exclude_keywords ==
    << <<"un", "haeng">>, <<"si", "gan">>, <<"bae", "cha">>, <<"gan", "gyeok">>,
       <<"bun">>, <<"si">>, <<"no", "seon">>, <<"an", "nae">>, <<"mun", "ui">>,
       <<"yeon", "rak", "cheo">> >>

---------------------------------------------------------------------------
(* StopExtractor: stops                                                    *)

RECURSIVE Collapse(_)
\* re.sub(r"\s+", " ", text)
Collapse(s) ==
    IF s = <<>> THEN <<>>
    ELSE IF IsSpace(s[1]) THEN <<" ">> \o Collapse(From(s, RunEnd(IsSpace, s, 1)))
    ELSE <<s[1]>> \o Collapse(Tail(s))

\* a character the class [^\w\s가-힣\d:~\-→↔] takes
IsSpecial(c) == c \in {",", ".", "(", ")"}

\* lines 50-56
clean_text(s) ==
    LET collapsed == Collapse(s)
    IN  Strip([k \in 1..Len(collapsed) |->
                  IF IsSpecial(collapsed[k]) THEN " " ELSE collapsed[k]])

\* is_valid_stop without the length tests of lines 94 and 106
is_valid_stop_any_length(stop_name) ==
    /\ stop_name # <<>>
    /\ ~\E e \in 1..Len(exclude_keywords) : In(exclude_keywords[e], stop_name)
    /\ ~IsDigitStr(stop_name)
    /\ \E w \in 1..Len(stop_keywords) : In(stop_keywords[w], stop_name)

\* lines 92-112
is_valid_stop(stop_name) ==
    IF stop_name = <<>> \/ Len(stop_name) < 2 THEN FALSE
    ELSE IF \E e \in 1..Len(exclude_keywords) : In(exclude_keywords[e], stop_name)
    THEN FALSE
    ELSE IF IsDigitStr(stop_name) THEN FALSE
    ELSE IF Len(stop_name) < 3 \/ Len(stop_name) > 30 THEN FALSE
    ELSE \E w \in 1..Len(stop_keywords) : In(stop_keywords[w], stop_name)

\* re.sub(r"[\s\d]", "", stop), line 121
normalized_of(stop) == SelectSeq(stop, LAMBDA c : ~IsSpace(c) /\ ~IsDigit(c))

RECURSIVE deduplicate_from(_, _)
\* the loop of lines 119-125 on the rest of the list, with seen_normalized
deduplicate_from(rest, seen_normalized) ==
    IF rest = <<>> THEN <<>>
    ELSE LET normalized == normalized_of(Head(rest))
         IN  IF normalized \notin seen_normalized
             THEN <<Head(rest)>>
                      \o deduplicate_from(Tail(rest), seen_normalized \cup {normalized})
             ELSE deduplicate_from(Tail(rest), seen_normalized)

RECURSIVE deduplicate_exact(_, _)
\* deduplicate_from with the stop itself as its key
deduplicate_exact(rest, seen) ==
    IF rest = <<>> THEN <<>>
    ELSE IF Head(rest) \notin seen
    THEN <<Head(rest)>> \o deduplicate_exact(Tail(rest), seen \cup {Head(rest)})
    ELSE deduplicate_exact(Tail(rest), seen)

\* deduplicate_stops without line 121: the text of the stop is the key
deduplicate_stops_by_text(stop_names) == deduplicate_exact(stop_names, {})

\* deduplicate_stops with unique.insert(0, stop) for line 125: newest first
deduplicate_stops_newest_first(stop_names) ==
    LET kept == deduplicate_from(stop_names, {})
    IN  [k \in 1..Len(kept) |-> kept[Len(kept) + 1 - k]]

\* lines 114-127
deduplicate_stops(stop_names) == deduplicate_from(stop_names, {})

\* the alternatives that follow [가-힣]{2,15} in stop_pattern (line 32), in
\* order: the stop keywords, the last one as 건너편?, the longer form first
stop_suffixes ==
    SubSeq(stop_keywords, 1, Len(stop_keywords) - 1)
        \o << <<"geon", "neo", "pyeon">>, <<"geon", "neo">> >>

\* The index after the match of stop_pattern that starts at index i, 0 when
\* there is none: the longest run of 2 to 15 syllables that a suffix follows
\* (the quantifier is greedy and gives back one syllable at a time), the first
\* suffix that fits, and then \s*\d*번?\s*(?:출구)?, each as long as it can be.
stop_match_end(s, i) ==
    LET hangul == RunEnd(IsHangul, s, i) - i
        fits(n) == {a \in 1..Len(stop_suffixes) : At(stop_suffixes[a], s, i + n)}
        ns == {n \in 2..Min(15, hangul) : fits(n) # {}}
    IN  IF ns = {} THEN 0
        ELSE LET n == CHOOSE n \in ns : \A m \in ns : m <= n
                 a == CHOOSE a \in fits(n) : \A b \in fits(n) : a <= b
                 e0 == i + n + Len(stop_suffixes[a])
                 e1 == RunEnd(IsSpace, s, e0)
                 e2 == RunEnd(IsDigit, s, e1)
                 e3 == IF At(<<"beon">>, s, e2) THEN e2 + 1 ELSE e2
                 e4 == RunEnd(IsSpace, s, e3)
             IN  IF At(<<"chul", "gu">>, s, e4) THEN e4 + 2 ELSE e4

RECURSIVE findall_stops(_, _)
\* stop_pattern.findall on s[i:]
findall_stops(s, i) ==
    IF i > Len(s) THEN <<>>
    ELSE LET e == stop_match_end(s, i)
         IN  IF e = 0 THEN findall_stops(s, i + 1)
             ELSE <<SubSeq(s, i, e - 1)>> \o findall_stops(s, e)

\* lines 60-68: the list `stops` after the pass of the pattern
pattern_pass(s) ==
    LET matches == findall_stops(clean_text(s), 1)
    IN  SelectSeq([m \in 1..Len(matches) |-> Strip(matches[m])], is_valid_stop)

\* lines 71-88: the parts the loops come to test with `part not in stops`,
\* in the order they come to them
keyword_candidates(s) ==
    LET lines == SplitOn({"NL"}, s)
        of_line(raw) ==
            LET line == clean_text(raw)
                split == SplitOn({",", " ", "NL", "->", "<->", "-"}, line)
                parts == [p \in 1..Len(split) |-> Strip(split[p])]
                of_keyword(keyword) ==
                    IF In(keyword, line)
                    THEN SelectSeq(parts,
                                   LAMBDA part : In(keyword, part) /\ is_valid_stop(part))
                    ELSE <<>>
            IN  IF \E e \in 1..Len(exclude_keywords) : In(exclude_keywords[e], line)
                THEN <<>>
                ELSE Concat([w \in 1..Len(stop_keywords) |-> of_keyword(stop_keywords[w])])
    IN  Concat([l \in 1..Len(lines) |-> of_line(lines[l])])

RECURSIVE append_new(_, _)
\* lines 87-88 for each candidate in turn
append_new(stop_names, candidates) ==
    IF candidates = <<>> THEN stop_names
    ELSE IF \E k \in 1..Len(stop_names) : stop_names[k] = Head(candidates)
    THEN append_new(stop_names, Tail(candidates))
    ELSE append_new(Append(stop_names, Head(candidates)), Tail(candidates))

\* lines 71-88: the list `stops` after the pass of the keywords
keyword_pass(stop_names, s) == append_new(stop_names, keyword_candidates(s))

\* lines 58-90
extract_stops(s) == deduplicate_stops(keyword_pass(pattern_pass(s), s))

---------------------------------------------------------------------------
(* StopExtractor: hours, interval and route name                           *)

\* None where a str may stand: a sequence that is the text of no str
NoText == <<Null>>

NoMatch == [ok |-> FALSE, value |-> <<>>]
Match(value) == [ok |-> TRUE, value |-> value]

\* the character at index i, "" beyond the end
CharAt(s, i) == IF i \in 1..Len(s) THEN s[i] ELSE ""

\* str.zfill(2) of one or two digits
zfill2(s) == IF Len(s) < 2 THEN <<"0">> \o s ELSE s

\* an optional group (\d{2})? at index i: the two digits, or nothing
TwoDigits(s, i) ==
    IF RunEnd(IsDigit, s, i) - i >= 2 THEN SubSeq(s, i, i + 1) ELSE <<>>

\* The match of time_pattern (line 37) that starts at index i, formatted as in
\* lines 133-137.  Each piece takes as much as it can; a shorter choice of a
\* piece leaves a digit where the pattern wants another character.
time_match(s, i) ==
    LET d1 == Min(2, RunEnd(IsDigit, s, i) - i)
        p1 == RunEnd(IsSpace, s, i + d1)
        p2 == RunEnd(IsSpace, s, p1 + 1)
        m1 == TwoDigits(s, p2)
        p4 == RunEnd(IsSpace, s, p2 + Len(m1))
        p5 == RunEnd(IsSpace, s, p4 + 1)
        d3 == Min(2, RunEnd(IsDigit, s, p5) - p5)
        p6 == RunEnd(IsSpace, s, p5 + d3)
        p7 == RunEnd(IsSpace, s, p6 + 1)
        m2 == TwoDigits(s, p7)
        minutes(m) == IF m = <<>> THEN <<"0", "0">> ELSE m
    IN  IF d1 = 0 \/ CharAt(s, p1) \notin {":", "si"} THEN NoMatch
        ELSE IF CharAt(s, p4) \notin {"~", "-"} THEN NoMatch
        ELSE IF d3 = 0 \/ CharAt(s, p6) \notin {":", "si"} THEN NoMatch
        ELSE Match(zfill2(SubSeq(s, i, i + d1 - 1)) \o <<":">> \o minutes(m1) \o <<"~">>
                     \o zfill2(SubSeq(s, p5, p5 + d3 - 1)) \o <<":">> \o minutes(m2))

\* pattern.search: the match at the first index that has one
Search(match_at(_, _), s) ==
    IF \A i \in 1..Len(s) : ~match_at(s, i).ok THEN NoMatch
    ELSE match_at(s, CHOOSE i \in 1..Len(s) :
                         match_at(s, i).ok /\ \A k \in 1..(i - 1) : ~match_at(s, k).ok)

\* lines 129-138
extract_time_info(s) ==
    LET m == Search(time_match, s) IN IF m.ok THEN m.value ELSE NoText

\* The match of interval_pattern (line 42) that starts at index i, formatted as
\* in lines 144-148: the digits from i on, an optional ~ or -, optional digits
\* and 분, with white space between them.
interval_match(s, i) ==
    LET e1 == RunEnd(IsDigit, s, i)
        p1 == RunEnd(IsSpace, s, e1)
        p2 == IF CharAt(s, p1) \in {"~", "-"} THEN p1 + 1 ELSE p1
        p3 == RunEnd(IsSpace, s, p2)
        e2 == RunEnd(IsDigit, s, p3)
        p4 == RunEnd(IsSpace, s, e2)
        min_interval == SubSeq(s, i, e1 - 1)
        max_interval == SubSeq(s, p3, e2 - 1)
    IN  IF e1 = i \/ CharAt(s, p4) # "bun" THEN NoMatch
        ELSE IF max_interval # <<>>
        THEN Match(min_interval \o <<"~">> \o max_interval \o <<"bun">>)
        ELSE Match(min_interval \o <<"bun">>)

\* lines 140-149
extract_interval(s) ==
    LET m == Search(interval_match, s) IN IF m.ok THEN m.value ELSE NoText

\* " 셔틀"
SHUTTLE == <<" ", "syeo", "teul">>

\* The match of route_name_pattern (line 47) that starts at index i: syllables,
\* then optionally 셔틀, 순환, 노선 or 버스, digits, and 호선 or 번, with white
\* space between them.
route_name_match(s, i) ==
    LET e0 == RunEnd(IsHangul, s, i)
        e1 == RunEnd(IsSpace, s, e0)
        kinds == {<<"syeo", "teul">>, <<"sun", "hwan">>, <<"no", "seon">>, <<"beo", "seu">>}
        e2 == IF \E w \in kinds : At(w, s, e1) THEN e1 + 2 ELSE e1
        e3 == RunEnd(IsSpace, s, e2)
        e4 == RunEnd(IsDigit, s, e3)
        e5 == RunEnd(IsSpace, s, e4)
        e6 == IF At(<<"ho", "seon">>, s, e5) THEN e5 + 2
              ELSE IF At(<<"beon">>, s, e5) THEN e5 + 1 ELSE e5
    IN  IF e0 = i THEN NoMatch ELSE Match(SubSeq(s, i, e6 - 1))

\* lines 151-156
extract_route_name(s, district_name) ==
    LET m == Search(route_name_match, s)
    IN  IF m.ok THEN Strip(m.value) ELSE district_name \o SHUTTLE

---------------------------------------------------------------------------
(* StopExtractor.parse_route_block on a block of text, and                 *)
(* StopExtractor.deduplicate_stops on a list of stop names                 *)

MaxPieces == 3          \* pieces of a block of text
MaxList == 3            \* stop names of a list given to deduplicate_stops

\* Scenario A: "영등포역 1번출구\n여의도역\n운행 09:00~18:00 30분 간격"
ScenarioA ==
    <<"yeong", "deung", "po", "yeok", " ", "1", "beon", "chul", "gu", "NL",
      "yeo", "ui", "do", "yeok", "NL",
      "un", "haeng", " ", "0", "9", ":", "0", "0", "~", "1", "8", ":", "0", "0", " ",
      "3", "0", "bun", " ", "gan", "gyeok">>

YEONGDEUNGPO_GU == <<"yeong", "deung", "po", "gu">>         \* "영등포구"

\* "가가역", "가", "역", "분", " ", "1", "\n", ","
Pieces ==
    {<<"ga", "ga", "yeok">>, <<"ga">>, <<"yeok">>, <<"bun">>, <<" ">>, <<"1">>,
     <<"NL">>, <<",">>}

\* "가가역" and 27 or 28 digits: 30 and 31 characters
LongTexts == {<<"ga", "ga", "yeok">> \o [k \in 1..n |-> "1"] : n \in {27, 28}}

\* the blocks of text: Scenario A, the long ones, and up to MaxPieces pieces
\* in a row
BlockTexts ==
    {ScenarioA} \cup LongTexts \cup {Concat(ps) : ps \in SeqUpTo(Pieces, MaxPieces)}

\* "가가역", "가가역 1", "1가 가역", "나나역", "1", ""
StopNames ==
    {<<"ga", "ga", "yeok">>, <<"ga", "ga", "yeok", " ", "1">>,
     <<"1", "ga", " ", "ga", "yeok">>, <<"na", "na", "yeok">>, <<"1">>, <<>>}

StopLists == SeqUpTo(StopNames, MaxList)

\* no JSONValidator or GeocodingService call is under way
StagesIdle ==
    /\ input = NONE
    /\ data = NONE
    /\ validation = NONE
    /\ validation_errors = <<>>
    /\ validation_warnings = <<>>
    /\ final_data = NONE
    /\ quality = NONE
    /\ written = {}
    /\ steps = <<>>
    /\ reports = <<>>
    /\ extracted = NONE
    /\ cache = NONE

SegmenterIdle ==
    /\ full_text = NONE
    /\ todo = NONE
    /\ current_district = NONE
    /\ current_lines = NONE
    /\ blocks = NONE

\* parse_route_block(text, district) is called on a block, as by
\* process_ocr_results (line 199); or deduplicate_stops(stops) on a list
ExtractInit ==
    /\ StagesIdle
    /\ ServicesIdle
    /\ SegmenterIdle
    /\ parsed = NONE
    /\ unique = NONE
    /\ \/ /\ block_text \in BlockTexts
          /\ block_district = YEONGDEUNGPO_GU
          /\ stop_list = NONE
          /\ pc = "name"
       \/ /\ block_text = NONE
          /\ block_district = NONE
          /\ stop_list \in StopLists
          /\ pc = "deduplicate"

\* line 178
ExtractRouteName ==
    /\ pc = "name"
    /\ parsed' = [district |-> block_district,
                  name |-> extract_route_name(block_text, block_district)]
    /\ pc' = "hours"
    /\ UNCHANGED <<block_text, block_district, stop_list, unique>>
    /\ UNCHANGED <<input, data, validation, validation_errors, validation_warnings,
                   final_data, quality, written, steps, reports>>
    /\ UNCHANGED <<geocoder_vars, segmenter_vars, services_vars>>

\* line 179
ExtractTimeInfo ==
    /\ pc = "hours"
    /\ parsed' = [district |-> parsed.district, name |-> parsed.name,
                  hours |-> extract_time_info(block_text)]
    /\ pc' = "interval"
    /\ UNCHANGED <<block_text, block_district, stop_list, unique>>
    /\ UNCHANGED <<input, data, validation, validation_errors, validation_warnings,
                   final_data, quality, written, steps, reports>>
    /\ UNCHANGED <<geocoder_vars, segmenter_vars, services_vars>>

\* line 180
ExtractInterval ==
    /\ pc = "interval"
    /\ parsed' = [district |-> parsed.district, name |-> parsed.name,
                  hours |-> parsed.hours,
                  interval |-> extract_interval(block_text)]
    /\ pc' = "pattern"
    /\ UNCHANGED <<block_text, block_district, stop_list, unique>>
    /\ UNCHANGED <<input, data, validation, validation_errors, validation_warnings,
                   final_data, quality, written, steps, reports>>
    /\ UNCHANGED <<geocoder_vars, segmenter_vars, services_vars>>

\* line 181, extract_stops: lines 60-68
PatternPass ==
    /\ pc = "pattern"
    /\ stop_list' = pattern_pass(block_text)
    /\ pc' = "keyword"
    /\ UNCHANGED <<block_text, block_district, parsed, unique>>
    /\ UNCHANGED <<input, data, validation, validation_errors, validation_warnings,
                   final_data, quality, written, steps, reports>>
    /\ UNCHANGED <<geocoder_vars, segmenter_vars, services_vars>>

\* extract_stops: lines 71-88
KeywordPass ==
    /\ pc = "keyword"
    /\ stop_list' = keyword_pass(stop_list, block_text)
    /\ pc' = "deduplicate"
    /\ UNCHANGED <<block_text, block_district, parsed, unique>>
    /\ UNCHANGED <<input, data, validation, validation_errors, validation_warnings,
                   final_data, quality, written, steps, reports>>
    /\ UNCHANGED <<geocoder_vars, segmenter_vars, services_vars>>

\* deduplicate_stops: called by extract_stops at line 90, or on a list
Deduplicate ==
    /\ pc = "deduplicate"
    /\ unique' = deduplicate_stops(stop_list)
    /\ pc' = IF parsed = NONE THEN "again" ELSE "return"
    /\ UNCHANGED <<block_text, block_district, parsed, stop_list>>
    /\ UNCHANGED <<input, data, validation, validation_errors, validation_warnings,
                   final_data, quality, written, steps, reports>>
    /\ UNCHANGED <<geocoder_vars, segmenter_vars, services_vars>>

\* deduplicate_stops called on the list it has returned
DeduplicateAgain ==
    /\ pc = "again"
    /\ stop_list' = unique
    /\ unique' = deduplicate_stops(unique)
    /\ pc' = "done"
    /\ UNCHANGED <<block_text, block_district, parsed>>
    /\ UNCHANGED <<input, data, validation, validation_errors, validation_warnings,
                   final_data, quality, written, steps, reports>>
    /\ UNCHANGED <<geocoder_vars, segmenter_vars, services_vars>>

\* lines 176-183: the dict parse_route_block returns
ReturnRoute ==
    /\ pc = "return"
    /\ parsed' = [district |-> parsed.district, name |-> parsed.name,
                  hours |-> parsed.hours, interval |-> parsed.interval,
                  stops |-> unique,
                  raw_text |-> SubSeq(block_text, 1, Min(500, Len(block_text)))]
    /\ pc' = "done"
    /\ UNCHANGED <<block_text, block_district, stop_list, unique>>
    /\ UNCHANGED <<input, data, validation, validation_errors, validation_warnings,
                   final_data, quality, written, steps, reports>>
    /\ UNCHANGED <<geocoder_vars, segmenter_vars, services_vars>>

ExtractNext ==
    \/ ExtractRouteName \/ ExtractTimeInfo \/ ExtractInterval
    \/ PatternPass \/ KeywordPass \/ Deduplicate \/ DeduplicateAgain \/ ReturnRoute

ExtractSpec == ExtractInit /\ [][ExtractNext]_vars

---------------------------------------------------------------------------
(* StopExtractor.split_by_district                                         *)

\* self.districts.keys(): the keys of config.SEOUL_DISTRICTS in their order,
\* "종로구", "중구", "용산구", "성동구", "광진구", "동대문구", "중랑구",
\* "성북구", "강북구", "도봉구", "노원구", "은평구", "서대문구", "마포구",
\* "양천구", "강서구", "구로구", "금천구", "영등포구", "동작구", "관악구",
\* "서초구", "강남구", "송파구", "강동구"
district_keys ==
    << <<"jong", "ro", "gu">>, <<"jung", "gu">>, <<"yong", "san", "gu">>,
       <<"seong", "dong", "gu">>, <<"gwang", "jin", "gu">>,
       <<"dong", "dae", "mun", "gu">>, <<"jung", "rang", "gu">>,
       <<"seong", "buk", "gu">>, <<"gang", "buk", "gu">>, <<"do", "bong", "gu">>,
       <<"no", "won", "gu">>, <<"eun", "pyeong", "gu">>,
       <<"seo", "dae", "mun", "gu">>, <<"ma", "po", "gu">>,
       <<"yang", "cheon", "gu">>, <<"gang", "seo", "gu">>, <<"gu", "ro", "gu">>,
       <<"geum", "cheon", "gu">>, YEONGDEUNGPO_GU, <<"dong", "jak", "gu">>,
       <<"gwan", "ak", "gu">>, <<"seo", "cho", "gu">>, <<"gang", "nam", "gu">>,
       <<"song", "pa", "gu">>, <<"gang", "dong", "gu">> >>

\* lines 214-215: the first key that is in the line, NoText when none is
district_in(line) ==
    LET found == {k \in 1..Len(district_keys) : In(district_keys[k], line)}
    IN  IF found = {} THEN NoText
        ELSE district_keys[CHOOSE k \in found : \A l \in found : k <= l]

\* src/config.py lines 43-69: the "keywords" of each district, in the order of
\* district_keys
district_keywords ==
    <<
       <<<<"jong", "ro">>, <<"gwang", "hwa", "mun">>, <<"gyeong", "bok", "gung">>>>,
       <<<<"jung", "gu">>, <<"myeong", "dong">>, <<"eul", "ji", "ro">>>>,
       <<<<"yong", "san">>, <<"i", "tae", "won">>, <<"han", "nam">>>>,
       <<<<"seong", "dong">>, <<"wang", "sip", "ri">>, <<"seong", "su">>>>,
       <<<<"gwang", "jin">>, <<"geon", "dae">>, <<"gu", "ui">>>>,
       <<<<"dong", "dae", "mun">>, <<"cheong", "ryang", "ri">>, <<"hoe", "gi">>>>,
       <<<<"jung", "rang">>, <<"mang", "u">>, <<"myeon", "mok">>>>,
       <<<<"seong", "buk">>, <<"gil", "eum">>, <<"don", "am">>>>,
       <<<<"gang", "buk">>, <<"su", "yu">>, <<"mi", "a">>>>,
       <<<<"do", "bong">>, <<"chang", "dong">>, <<"ssang", "mun">>>>,
       <<<<"no", "won">>, <<"sang", "gye">>, <<"jung", "gye">>>>,
       <<<<"eun", "pyeong">>, <<"yeon", "sin", "nae">>, <<"bul", "gwang">>>>,
       <<<<"seo", "dae", "mun">>, <<"sin", "chon">>, <<"hong", "je">>>>,
       <<<<"ma", "po">>, <<"hong", "dae">>, <<"hap", "jeong">>>>,
       <<<<"yang", "cheon">>, <<"mok", "dong">>, <<"sin", "jeong">>>>,
       <<<<"gang", "seo">>, <<"hwa", "gok">>, <<"bal", "san">>>>,
       <<<<"gu", "ro">>, <<"sin", "do", "rim">>, <<"gae", "bong">>>>,
       <<<<"geum", "cheon">>, <<"ga", "san">>, <<"dok", "san">>>>,
       <<<<"yeong", "deung", "po">>, <<"yeo", "ui", "do">>, <<"dang", "san">>>>,
       <<<<"dong", "jak">>, <<"sa", "dang">>, <<"no", "ryang", "jin">>>>,
       <<<<"gwan", "ak">>, <<"sin", "rim">>, <<"bong", "cheon">>>>,
       <<<<"seo", "cho">>, <<"gang", "nam">>, <<"yang", "jae">>>>,
       <<<<"gang", "nam">>, <<"yeok", "sam">>, <<"sam", "seong">>>>,
       <<<<"song", "pa">>, <<"jam", "sil">>, <<"ga", "rak">>>>,
       <<<<"gang", "dong">>, <<"cheon", "ho">>, <<"gil", "dong">>>>
    >>

\* lines 160-167: the first district, in the order of the keys, whose name or
\* one of whose keywords is in the text; None when there is none
identify_district(text_in) ==
    LET found == {k \in 1..Len(district_keys) :
                      \/ In(district_keys[k], text_in)
                      \/ \E n \in 1..Len(district_keywords[k]) :
                             In(district_keywords[k][n], text_in)}
    IN  IF found = {} THEN NoText
        ELSE district_keys[CHOOSE k \in found : \A l \in found : k <= l]

\* lines 217-218 and 229-230: blocks after `blocks[current_district] = ...`
\* under its test
flushed(blocks_now, district_now, lines_now) ==
    IF district_now # NoText /\ district_now # <<>> /\ lines_now # <<>>
    THEN [d \in DOMAIN blocks_now \cup {district_now} |->
             IF d = district_now THEN Join(<<"NL">>, lines_now) ELSE blocks_now[d]]
    ELSE blocks_now

MaxLines == 4           \* lines of a text given to split_by_district

\* "종로구", "종로구 1", "중구", "가가역", "중구 종로구", "명동"
LineKinds ==
    {<<"jong", "ro", "gu">>, <<"jong", "ro", "gu", " ", "1">>, <<"jung", "gu">>,
     <<"ga", "ga", "yeok">>, <<"jung", "gu", " ", "jong", "ro", "gu">>,
     <<"myeong", "dong">>}

\* the texts of up to MaxLines lines
FullTexts == {Join(<<"NL">>, ls) : ls \in SeqUpTo(LineKinds, MaxLines)}

\* split_by_district(text) is called: lines 208-212
SplitInit ==
    /\ StagesIdle
    /\ ServicesIdle
    /\ block_text = NONE
    /\ block_district = NONE
    /\ parsed = NONE
    /\ stop_list = NONE
    /\ unique = NONE
    /\ full_text \in FullTexts
    /\ todo = SplitOn({"NL"}, full_text)
    /\ current_district = NoText
    /\ current_lines = <<>>
    /\ blocks = <<>>
    /\ pc = "lines"

\* one turn of the loop of lines 212-226
ReadLine ==
    /\ pc = "lines"
    /\ todo # <<>>
    /\ LET line == Head(todo)
           district_found == district_in(line)
       IN  IF district_found # NoText
           THEN /\ blocks' = flushed(blocks, current_district, current_lines)
                /\ current_district' = district_found
                /\ current_lines' = <<line>>
           ELSE /\ current_lines' = IF current_district # NoText /\ current_district # <<>>
                                    THEN Append(current_lines, line)
                                    ELSE current_lines
                /\ UNCHANGED <<blocks, current_district>>
    /\ todo' = Tail(todo)
    /\ UNCHANGED <<pc, full_text>>
    /\ UNCHANGED <<input, data, validation, validation_errors, validation_warnings,
                   final_data, quality, written, steps, reports>>
    /\ UNCHANGED <<geocoder_vars, extractor_vars, services_vars>>

\* lines 228-232
ReturnBlocks ==
    /\ pc = "lines"
    /\ todo = <<>>
    /\ blocks' = flushed(blocks, current_district, current_lines)
    /\ pc' = "done"
    /\ UNCHANGED <<full_text, todo, current_district, current_lines>>
    /\ UNCHANGED <<input, data, validation, validation_errors, validation_warnings,
                   final_data, quality, written, steps, reports>>
    /\ UNCHANGED <<geocoder_vars, extractor_vars, services_vars>>

SplitNext == ReadLine \/ ReturnBlocks

SplitSpec == SplitInit /\ [][SplitNext]_vars

---------------------------------------------------------------------------
(* PipelineOrchestrator.run_pipeline, pipeline.py                           *)

\* lines 33-39: the ids of self.stages, in their order
stage_ids == <<"crawler", "ocr", "nlp", "geocode", "validate">>

NoList == <<Null>>                  \* None of an Optional[List[str]]

\* the truth value Python gives a list or None
ListTruthy(list) == list # NoList /\ list # <<>>

Elems(list) == {list[i] : i \in 1..Len(list)}

\* lines 122-129: stages_to_run
select_stages(stages, skip) ==
    SelectSeq(stage_ids,
              LAMBDA stage_id :
                  /\ ~(ListTruthy(stages) /\ stage_id \notin Elems(stages))
                  /\ ~(ListTruthy(skip) /\ stage_id \in Elems(skip)))

\* the artifact the run of a stage tests with input_path.exists() before
\* anything else: geocoder.py lines 283-287, validator.py lines 259-263
upstream ==
    [stage_id \in {"geocode", "validate"} |->
        IF stage_id = "geocode" THEN "extracted_routes.json"
        ELSE "geocoded_routes.json"]

\* the artifact the run of a stage writes when it comes to its end:
\* crawler.py 289-291, ocr_parser.py 254-256, nlp_extractor.py 305-307,
\* geocoder.py 302-304, validator.py 300-302
output_of ==
    [stage_id \in Elems(stage_ids) |->
        CASE stage_id = "crawler" -> "crawl_results.json"
          [] stage_id = "ocr" -> "ocr_results.json"
          [] stage_id = "nlp" -> "extracted_routes.json"
          [] stage_id = "geocode" -> "geocoded_routes.json"
          [] stage_id = "validate" -> "shuttle_routes.json"]

Artifacts ==
    {output_of[stage_id] : stage_id \in Elems(stage_ids)} \cup {"pipeline_report.json"}

\* what agent.run() of a stage can do with the artifacts on disk: whether it
\* raised, what it returned and the artifacts afterwards.  A geocode or
\* validate stage without its input returns {"error": "Input file not found"}
\* at once; any other run raises on the way, or writes its output and returns
\* it; the ocr stage can also return its {"success": False, ...} of missing
\* dependencies (ocr_parser.py 229-241)
run_of(stage_id, on_disk) ==
    IF stage_id \in DOMAIN upstream /\ on_disk[upstream[stage_id]] = "absent"
    THEN {[raised |-> FALSE, result |-> "error", files |-> on_disk]}
    ELSE {[raised |-> TRUE, result |-> "None", files |-> on_disk],
          [raised |-> FALSE, result |-> "output",
           files |-> [on_disk EXCEPT ![output_of[stage_id]] = "new"]]}
         \cup IF stage_id = "ocr"
              THEN {[raised |-> FALSE, result |-> "error", files |-> on_disk]}
              ELSE {}

\* lines 67-102: the dict run_stage returns
run_stage(stage_id, ran) ==
    [stage_id |-> stage_id,
     success |-> ~ran.raised,
     result |-> ran.result,
     error |-> IF ran.raised THEN "exception" ELSE "None"]

MaxSelected == 2        \* stage ids in the `stages` argument

\* None, or a list of stage ids in any order
StageLists == {NoList} \cup SeqUpTo(Elems(stage_ids), MaxSelected)

\* None, or one stage to skip, as run_quick and run_update pass (lines 180, 188)
SkipLists == {NoList} \cup {<<stage_id>> : stage_id \in Elems(stage_ids)}

\* the two artifacts that stages test for are there from an earlier run or not
InitialFiles ==
    {[a \in Artifacts |-> IF a \in there THEN "old" ELSE "absent"] :
        there \in SUBSET {upstream[stage_id] : stage_id \in DOMAIN upstream}}

\* run_pipeline(stages, skip_stages, continue_on_error) is called on a new
\* PipelineOrchestrator: lines 41-42
PipelineInit ==
    /\ StagesIdle
    /\ ExtractorIdle
    /\ CallersIdle
    /\ LookupIdle
    /\ FallbackIdle
    /\ stages_arg \in StageLists
    /\ skip_stages \in SkipLists
    /\ continue_on_error \in BOOLEAN
    /\ files \in InitialFiles
    /\ stages_to_run = NONE
    /\ results = <<>>
    /\ pipeline_errors = <<>>
    /\ completed = NONE
    /\ failed = NONE
    /\ pipeline_report = NONE
    /\ pc = "select"

\* lines 122-133
SelectStages ==
    /\ pc = "select"
    /\ stages_to_run' = select_stages(stages_arg, skip_stages)
    /\ completed' = 0
    /\ failed' = 0
    /\ pc' = IF stages_to_run' = <<>> THEN "report" ELSE "stages"
    /\ UNCHANGED <<stages_arg, skip_stages, continue_on_error, results,
                   pipeline_errors, files, pipeline_report>>
    /\ UNCHANGED <<input, data, validation, validation_errors, validation_warnings,
                   final_data, quality, written, steps, reports>>
    /\ UNCHANGED <<geocoder_vars, extractor_vars, segmenter_vars>>
    /\ UNCHANGED <<caller_vars, lookup_vars, fallback_vars>>

\* one turn of the loop of lines 135-151
RunStage ==
    /\ pc = "stages"
    /\ LET stage_id == Head(stages_to_run)
       IN  \E ran \in run_of(stage_id, files) :
              LET result == run_stage(stage_id, ran)
              IN  /\ files' = ran.files
                  /\ results' = [s \in DOMAIN results \cup {stage_id} |->
                                    IF s = stage_id THEN result ELSE results[s]]
                  /\ IF result.success
                     THEN /\ completed' = completed + 1
                          /\ UNCHANGED <<failed, pipeline_errors>>
                     ELSE /\ failed' = failed + 1
                          /\ pipeline_errors' =
                                 Append(pipeline_errors,
                                        [stage |-> stage_id, error |-> result.error])
                          /\ UNCHANGED completed
                  /\ pc' = IF \/ ~result.success /\ ~continue_on_error
                              \/ Tail(stages_to_run) = <<>>
                           THEN "report" ELSE "stages"
    /\ stages_to_run' = Tail(stages_to_run)
    /\ UNCHANGED <<stages_arg, skip_stages, continue_on_error, pipeline_report>>
    /\ UNCHANGED <<input, data, validation, validation_errors, validation_warnings,
                   final_data, quality, written, steps, reports>>
    /\ UNCHANGED <<geocoder_vars, extractor_vars, segmenter_vars>>
    /\ UNCHANGED <<caller_vars, lookup_vars, fallback_vars>>

\* lines 153-183: the report is built, saved and returned
Report ==
    /\ pc = "report"
    /\ pipeline_report' =
           [pipeline_status |-> IF failed = 0 THEN "completed"
                                ELSE "completed_with_errors",
            stages_completed |-> completed,
            stages_failed |-> failed,
            stages |-> results,
            errors |-> pipeline_errors]
    /\ files' = [files EXCEPT !["pipeline_report.json"] = "new"]
    /\ pc' = "done"
    /\ UNCHANGED <<stages_arg, skip_stages, continue_on_error, stages_to_run,
                   results, pipeline_errors, completed, failed>>
    /\ UNCHANGED <<input, data, validation, validation_errors, validation_warnings,
                   final_data, quality, written, steps, reports>>
    /\ UNCHANGED <<geocoder_vars, extractor_vars, segmenter_vars>>
    /\ UNCHANGED <<caller_vars, lookup_vars, fallback_vars>>

PipelineNext == SelectStages \/ RunStage \/ Report

PipelineSpec == PipelineInit /\ [][PipelineNext]_vars

---------------------------------------------------------------------------
(* JSONValidator.validate_data called by two callers, validator.py 123-149 *)

\* `self.<field> = []`, lines 125-126, with the list left in place and
\* emptied instead of a new list
rebind_in_place(objects, bindings, self, field) ==
    [heap |-> [objects EXCEPT ![bindings[self][field]] = <<>>],
     self_lists |-> bindings]

\* `self.<field> = []`, lines 125-126: a new list object is made and the
\* attribute of the validator is bound to it
rebind(objects, bindings, self, field) ==
    [heap |-> Append(objects, <<>>),
     self_lists |-> [bindings EXCEPT ![self][field] = Len(objects) + 1]]

\* `self.<field>.extend(items)`, lines 131, 136, 137: the list the attribute
\* is bound to at this moment grows
extend(objects, bindings, self, field, items) ==
    [objects EXCEPT ![bindings[self][field]] = @ \o items]

\* lines 141-149: the dict of get_validation_result; "errors" and "warnings"
\* are the list objects themselves
result_of(objects, bindings, self) ==
    LET e == bindings[self].errors
        w == bindings[self].warnings
    IN  [valid |-> Len(objects[e]) = 0,
         errors |-> e,
         warnings |-> w,
         error_count |-> Len(objects[e]),
         warning_count |-> Len(objects[w])]

MaxCallDistricts == 2   \* districts of a document of a caller

\* a district without findings and one with an error and a warning
CallerDistricts ==
    {District("Jongno-gu", <<OkRoute>>), District("Jongno-gu", <<LostRoute>>)}

CallerDocs == {Doc(ds) : ds \in SeqUpTo(CallerDistricts, MaxCallDistricts)}

Callers == {1, 2}

\* two validators have been made (lines 34-35) and each caller is about to
\* call validate_data of a validator with a document: caller 2 uses the
\* validator of caller 1 or its own
CallersInit ==
    /\ StagesIdle
    /\ ExtractorIdle
    /\ OrchestratorIdle
    /\ LookupIdle
    /\ FallbackIdle
    /\ pc = "calls"
    /\ heap = << <<>>, <<>>, <<>>, <<>> >>
    /\ self_lists = [v \in {1, 2} |-> [errors |-> 2 * v - 1, warnings |-> 2 * v]]
    /\ parallel \in BOOLEAN
    /\ \E d1 \in CallerDocs, d2 \in CallerDocs, v2 \in {1, 2} :
          callers = [c \in Callers |->
                        [self |-> IF c = 1 THEN 1 ELSE v2,
                         data |-> IF c = 1 THEN d1 ELSE d2,
                         pc |-> "reset_errors",
                         next |-> 1,
                         result |-> NONE]]

\* the call of caller 2 comes after the return of that of caller 1 unless the
\* calls are made in parallel
MayRun(c) == parallel \/ c = 1 \/ callers[1].pc = "returned"

CallerFrame ==
    /\ UNCHANGED <<pc, parallel>>
    /\ UNCHANGED <<input, data, validation, validation_errors, validation_warnings,
                   final_data, quality, written, steps, reports>>
    /\ UNCHANGED <<geocoder_vars, extractor_vars, segmenter_vars>>
    /\ UNCHANGED <<orchestrator_vars, lookup_vars, fallback_vars>>

\* line 125
ResetErrors(c) ==
    /\ MayRun(c)
    /\ callers[c].pc = "reset_errors"
    /\ LET r == rebind(heap, self_lists, callers[c].self, "errors")
       IN  /\ heap' = r.heap
           /\ self_lists' = r.self_lists
    /\ callers' = [callers EXCEPT ![c].pc = "reset_warnings"]
    /\ CallerFrame

\* line 126
ResetWarnings(c) ==
    /\ MayRun(c)
    /\ callers[c].pc = "reset_warnings"
    /\ LET r == rebind(heap, self_lists, callers[c].self, "warnings")
       IN  /\ heap' = r.heap
           /\ self_lists' = r.self_lists
    /\ callers' = [callers EXCEPT ![c].pc = "districts"]
    /\ CallerFrame

\* lines 128-132
ReadDistricts(c) ==
    /\ MayRun(c)
    /\ callers[c].pc = "districts"
    /\ IF callers[c].data.districts = <<>>
       THEN /\ heap' = extend(heap, self_lists, callers[c].self, "errors",
                              <<Msg(NO_DISTRICTS, "", "", 0)>>)
            /\ callers' = [callers EXCEPT ![c].pc = "result"]
       ELSE /\ heap' = heap
            /\ callers' = [callers EXCEPT ![c].pc = "extend_errors"]
    /\ UNCHANGED self_lists
    /\ CallerFrame

\* lines 134-136
ExtendErrors(c) ==
    /\ MayRun(c)
    /\ callers[c].pc = "extend_errors"
    /\ heap' = extend(heap, self_lists, callers[c].self, "errors",
                      validate_district(callers[c].data.districts[callers[c].next]).errors)
    /\ callers' = [callers EXCEPT ![c].pc = "extend_warnings"]
    /\ UNCHANGED self_lists
    /\ CallerFrame

\* line 137 and the next turn of the loop of line 134
ExtendWarnings(c) ==
    /\ MayRun(c)
    /\ callers[c].pc = "extend_warnings"
    /\ heap' = extend(heap, self_lists, callers[c].self, "warnings",
                      validate_district(callers[c].data.districts[callers[c].next]).warnings)
    /\ callers' = [callers EXCEPT
                      ![c].pc = IF callers[c].next = Len(callers[c].data.districts)
                                THEN "result" ELSE "extend_errors",
                      ![c].next = @ + 1]
    /\ UNCHANGED self_lists
    /\ CallerFrame

\* lines 132, 139 and 141-149
ReturnResult(c) ==
    /\ MayRun(c)
    /\ callers[c].pc = "result"
    /\ callers' = [callers EXCEPT
                      ![c].pc = "returned",
                      ![c].result = result_of(heap, self_lists, callers[c].self)]
    /\ UNCHANGED <<heap, self_lists>>
    /\ CallerFrame

CallersNext ==
    \E c \in Callers :
        \/ ResetErrors(c)
        \/ ResetWarnings(c)
        \/ ReadDistricts(c)
        \/ ExtendErrors(c)
        \/ ExtendWarnings(c)
        \/ ReturnResult(c)

CallersSpec == CallersInit /\ [][CallersNext]_vars

---------------------------------------------------------------------------
(* GeocodingService.geocode_fallback, geocoder.py 125-194                   *)

NoPoint == <<>>                     \* None of an Optional[Tuple[float, float]]

\* lines 128-154: the landmarks in the order of the dict; coordinates are in
\* ten-thousandths of a degree
\* "강남역", "서울역", "홍대입구역", "잠실역", "신촌역", "여의도역", "영등포역", "사당역", "건대입구역",
\* "왕십리역", "합정역", "신림역", "노원역", "종로3가역", "을지로입구역", "시청역", "교대역",
\* "역삼역", "선릉역", "삼성역", "종합운동장역", "구로디지털단지역", "가산디지털단지역", "문래역", "당산역"
landmarks ==
    <<
       [name |-> <<"gang", "nam", "yeok">>,
        coords |-> <<374979, 1270276>>],
       [name |-> <<"seo", "ul", "yeok">>,
        coords |-> <<375547, 1269707>>],
       [name |-> <<"hong", "dae", "ip", "gu", "yeok">>,
        coords |-> <<375571, 1269246>>],
       [name |-> <<"jam", "sil", "yeok">>,
        coords |-> <<375132, 1271001>>],
       [name |-> <<"sin", "chon", "yeok">>,
        coords |-> <<375599, 1269422>>],
       [name |-> <<"yeo", "ui", "do", "yeok">>,
        coords |-> <<375216, 1269244>>],
       [name |-> <<"yeong", "deung", "po", "yeok">>,
        coords |-> <<375156, 1269074>>],
       [name |-> <<"sa", "dang", "yeok">>,
        coords |-> <<374765, 1269816>>],
       [name |-> <<"geon", "dae", "ip", "gu", "yeok">>,
        coords |-> <<375403, 1270702>>],
       [name |-> <<"wang", "sip", "ri", "yeok">>,
        coords |-> <<375614, 1270378>>],
       [name |-> <<"hap", "jeong", "yeok">>,
        coords |-> <<375495, 1269138>>],
       [name |-> <<"sin", "rim", "yeok">>,
        coords |-> <<374842, 1269293>>],
       [name |-> <<"no", "won", "yeok">>,
        coords |-> <<376558, 1270617>>],
       [name |-> <<"jong", "ro", "3", "ga", "yeok">>,
        coords |-> <<375710, 1269920>>],
       [name |-> <<"eul", "ji", "ro", "ip", "gu", "yeok">>,
        coords |-> <<375660, 1269825>>],
       [name |-> <<"si", "cheong", "yeok">>,
        coords |-> <<375659, 1269771>>],
       [name |-> <<"gyo", "dae", "yeok">>,
        coords |-> <<374934, 1270145>>],
       [name |-> <<"yeok", "sam", "yeok">>,
        coords |-> <<375006, 1270366>>],
       [name |-> <<"seon", "reung", "yeok">>,
        coords |-> <<375045, 1270490>>],
       [name |-> <<"sam", "seong", "yeok">>,
        coords |-> <<375089, 1270630>>],
       [name |-> <<"jong", "hap", "un", "dong", "jang", "yeok">>,
        coords |-> <<375107, 1270739>>],
       [name |-> <<"gu", "ro", "di", "ji", "teol", "dan", "ji", "yeok">>,
        coords |-> <<374851, 1269015>>],
       [name |-> <<"ga", "san", "di", "ji", "teol", "dan", "ji", "yeok">>,
        coords |-> <<374816, 1268828>>],
       [name |-> <<"mun", "rae", "yeok">>,
        coords |-> <<375178, 1268945>>],
       [name |-> <<"dang", "san", "yeok">>,
        coords |-> <<375349, 1269025>>]
    >>

\* lines 157-183: the centre of each district, in the order of district_keys
district_centers ==
    <<
       <<375735, 1269790>>,
       <<375641, 1269979>>,
       <<375326, 1269907>>,
       <<375634, 1270369>>,
       <<375385, 1270823>>,
       <<375744, 1270396>>,
       <<376063, 1270927>>,
       <<375894, 1270167>>,
       <<376396, 1270257>>,
       <<376688, 1270471>>,
       <<376543, 1270568>>,
       <<376027, 1269291>>,
       <<375791, 1269368>>,
       <<375663, 1269019>>,
       <<375170, 1268666>>,
       <<375510, 1268495>>,
       <<374954, 1268874>>,
       <<374569, 1268955>>,
       <<375264, 1268963>>,
       <<375124, 1269393>>,
       <<374784, 1269516>>,
       <<374837, 1270324>>,
       <<375172, 1270473>>,
       <<375145, 1271059>>,
       <<375301, 1271238>>
    >>

\* str.replace(old, ""): every occurrence of the character is taken out
Without(char, s) == SelectSeq(s, LAMBDA c : c # char)

\* geocode_fallback with the latitude and the longitude of the result in each
\* other's place
geocode_fallback_swapped(place, district) ==
    LET hits == {k \in 1..Len(landmarks) : In(Without("yeok", landmarks[k].name), place)}
        first == CHOOSE k \in hits : \A l \in hits : k <= l
        centre == {k \in 1..Len(district_keys) : district_keys[k] = district}
    IN  IF hits # {} THEN <<landmarks[first].coords[2], landmarks[first].coords[1]>>
        ELSE IF district # NoText /\ district # <<>> /\ centre # {}
        THEN LET c == district_centers[CHOOSE k \in centre : TRUE] IN <<c[2], c[1]>>
        ELSE NoPoint

\* lines 185-194: the coordinates of the first landmark of the dict whose name
\* without "역" is in the place; else the centre of the district when one is
\* given and known; else None
geocode_fallback(place, district) ==
    LET hits == {k \in 1..Len(landmarks) : In(Without("yeok", landmarks[k].name), place)}
        first == CHOOSE k \in hits : \A l \in hits : k <= l
        centre == {k \in 1..Len(district_keys) : district_keys[k] = district}
    IN  IF hits # {} THEN landmarks[first].coords
        ELSE IF district # NoText /\ district # <<>> /\ centre # {}
        THEN district_centers[CHOOSE k \in centre : TRUE]
        ELSE NoPoint

\* the names of the landmarks, "강남역 1번출구", "삼거리" and "가가역"
FallbackPlaces ==
    {landmarks[k].name : k \in 1..Len(landmarks)}
        \cup {<<"gang", "nam", "yeok", " ", "1", "beon", "chul", "gu">>,
              <<"sam", "geo", "ri">>, <<"ga", "ga", "yeok">>}

\* None, "", the districts of Seoul and "부산진구"
FallbackDistricts ==
    {NoText, <<>>, <<"bu", "san", "jin", "gu">>}
        \cup {district_keys[k] : k \in 1..Len(district_keys)}

\* geocode_fallback(place, district) is called
FallbackInit ==
    /\ StagesIdle
    /\ ExtractorIdle
    /\ OrchestratorIdle
    /\ CallersIdle
    /\ LookupIdle
    /\ fb_place \in FallbackPlaces
    /\ fb_district \in FallbackDistricts
    /\ fb_coords = NONE
    /\ pc = "fallback"

\* lines 185-194
Fallback ==
    /\ pc = "fallback"
    /\ fb_coords' = geocode_fallback(fb_place, fb_district)
    /\ pc' = "done"
    /\ UNCHANGED <<fb_place, fb_district>>
    /\ UNCHANGED <<input, data, validation, validation_errors, validation_warnings,
                   final_data, quality, written, steps, reports>>
    /\ UNCHANGED <<geocoder_vars, extractor_vars, segmenter_vars>>
    /\ UNCHANGED <<orchestrator_vars, caller_vars, lookup_vars>>

FallbackNext == Fallback

FallbackSpec == FallbackInit /\ [][FallbackNext]_vars

---------------------------------------------------------------------------
(* GeocodingService.geocode, geocoder.py 196-233                            *)

\* line 199: f"{place}_{district or ''}"
cache_key(place, district) ==
    place \o <<"_">> \o (IF district = NoText THEN <<>> ELSE district)

\* line 205: `(cached["lat"], cached["lng"]) if cached else None`
cached_result(cached) ==
    IF cached.found THEN <<cached.lat, cached.lng>> ELSE NoPoint

\* lines 221-227 with the else branch left out: a failure is not cached
cache_after_found_only(cache_now, cache_key_now, coords) ==
    IF coords # NoPoint
    THEN [k \in DOMAIN cache_now \cup {cache_key_now} |->
             IF k = cache_key_now THEN Coords(coords[1], coords[2]) ELSE cache_now[k]]
    ELSE cache_now

\* lines 221-227: self.cache after `self.cache[cache_key] = ...`
cache_after(cache_now, cache_key_now, coords) ==
    [k \in DOMAIN cache_now \cup {cache_key_now} |->
        IF k = cache_key_now
        THEN IF coords # NoPoint THEN Coords(coords[1], coords[2]) ELSE NoResult
        ELSE cache_now[k]]

MaxLookups == 3         \* geocode calls of a run

\* "강남역" and "가가역"
LookupPlaces == {<<"gang", "nam", "yeok">>, <<"ga", "ga", "yeok">>}

\* None, "" and "중구"
LookupDistricts == {NoText, <<>>, <<"jung", "gu">>}

\* what the provider can answer to a query (lines 211-216): nothing, or one of
\* two places
ProviderAnswers == {NoPoint, <<375000, 1270000>>, <<375100, 1270100>>}

\* the cache load_cache returns (lines 42-50): empty, or with an entry of an
\* earlier run for "가가역" in "중구", found or not
LoadedCaches ==
    {<<>>}
        \cup {cache_after(<<>>, cache_key(<<"ga", "ga", "yeok">>, <<"jung", "gu">>), c) :
                 c \in {NoPoint, <<375200, 1270200>>}}

\* a GeocodingService has been made: lines 28-40
LookupInit ==
    /\ input = NONE
    /\ data = NONE
    /\ validation = NONE
    /\ validation_errors = <<>>
    /\ validation_warnings = <<>>
    /\ final_data = NONE
    /\ quality = NONE
    /\ written = {}
    /\ steps = <<>>
    /\ reports = <<>>
    /\ extracted = NONE
    /\ ExtractorIdle
    /\ OrchestratorIdle
    /\ CallersIdle
    /\ FallbackIdle
    /\ cache \in LoadedCaches
    /\ stats = [cache_hits |-> 0, api_calls |-> 0, failures |-> 0]
    /\ lookups = <<>>
    /\ pc = "lookups"

LookupFrame ==
    /\ UNCHANGED <<pc, extracted>>
    /\ UNCHANGED <<input, data, validation, validation_errors, validation_warnings,
                   final_data, quality, written, steps, reports>>
    /\ UNCHANGED <<extractor_vars, segmenter_vars>>
    /\ UNCHANGED <<orchestrator_vars, caller_vars, fallback_vars>>

\* geocode(place, district) with the key in the cache: lines 199-205
GeocodeCached ==
    /\ pc = "lookups"
    /\ Len(lookups) < MaxLookups
    /\ \E place \in LookupPlaces, district \in LookupDistricts :
          LET k == cache_key(place, district)
          IN  /\ k \in DOMAIN cache
              /\ stats' = [stats EXCEPT !.cache_hits = @ + 1]
              /\ lookups' = Append(lookups,
                                   [place |-> place, district |-> district,
                                    coords |-> cached_result(cache[k]),
                                    source |-> "cache"])
    /\ UNCHANGED cache
    /\ LookupFrame

\* geocode(place, district) with the key not in the cache: lines 199-233; the
\* provider answers the query of line 208 or not, and the fallback is asked
\* when it does not
GeocodeFresh ==
    /\ pc = "lookups"
    /\ Len(lookups) < MaxLookups
    /\ \E place \in LookupPlaces, district \in LookupDistricts,
          answer \in ProviderAnswers :
          LET k == cache_key(place, district)
              coords == IF answer = NoPoint THEN geocode_fallback(place, district)
                        ELSE answer
          IN  /\ k \notin DOMAIN cache
              /\ cache' = cache_after(cache, k, coords)
              /\ stats' = IF coords # NoPoint
                          THEN [stats EXCEPT !.api_calls = @ + 1]
                          ELSE [stats EXCEPT !.failures = @ + 1]
              /\ lookups' = Append(lookups,
                                   [place |-> place, district |-> district,
                                    coords |-> coords,
                                    source |-> IF answer = NoPoint THEN "fallback"
                                               ELSE "provider"])
    /\ LookupFrame

LookupNext == GeocodeCached \/ GeocodeFresh

LookupSpec == LookupInit /\ [][LookupNext]_vars





---------------------------------------------------------------------------
(* Vocabulary of the properties                                            *)

DistrictsOf(doc) == {doc.districts[i] : i \in 1..Len(doc.districts)}
RoutesIn(d) == {d.routes[j] : j \in 1..Len(d.routes)}
StopsIn(r) == {r.stops[k] : k \in 1..Len(r.stops)}
RoutesOf(doc) == UNION {RoutesIn(d) : d \in DistrictsOf(doc)}
StopsOf(doc) == UNION {StopsIn(r) : r \in RoutesOf(doc)}

\* both coordinates are there
Present(stop) == stop.lat # NullC /\ stop.lng # NullC

\* both coordinates are numbers inside the bounding box, edges included
InBox(stop) ==
    /\ stop.lat.t = "num" /\ 3742 <= stop.lat.v /\ stop.lat.v <= 3772
    /\ stop.lng.t = "num" /\ 12676 <= stop.lng.v /\ stop.lng.v <= 12718

CoordinateErrors == {NOT_NUMERIC, LAT_RANGE, LNG_RANGE}

IsPrefix(s, t) == Len(s) <= Len(t) /\ s = SubSeq(t, 1, Len(s))

Emitted == pc \in {"score", "save", "done"}

---------------------------------------------------------------------------
(* C1 *)

\* C1: every report validate_data returns has valid = TRUE exactly when its
\* error list is empty, whatever its warnings, and its two counts are the
\* lengths of its two lists.
C1_ValidIffNoErrors ==
    \A i \in 1..Len(reports) :
        /\ reports[i].valid <=> (reports[i].errors = <<>>)
        /\ reports[i].error_count = Len(reports[i].errors)
        /\ reports[i].warning_count = Len(reports[i].warnings)
        /\ reports[i].errors = validation_errors \/ i < Len(reports)

\* a report with warnings and no error: it is valid
C1_Witness ==
    /\ reports # <<>>
    /\ reports[1].valid
    /\ reports[1].warning_count = 3

---------------------------------------------------------------------------
(* C2 *)

---------------------------------------------------------------------------
(* C3 *)

ExpectedStops(route) == SelectSeq(route.stops, InBox)

ExpectedRoutes(d) ==
    LET survives(r) == Len(ExpectedStops(r)) >= 2
        rs == SelectSeq(d.routes, survives)
    IN  [j \in 1..Len(rs) |-> [rs[j] EXCEPT !.stops = ExpectedStops(rs[j])]]

\* the repaired document as the claim describes it
ExpectedRepair(doc) ==
    LET nonEmpty(d) == ExpectedRoutes(d) # <<>>
        ds == SelectSeq(doc.districts, nonEmpty)
    IN  [doc EXCEPT !.districts =
            [i \in 1..Len(ds) |-> [ds[i] EXCEPT !.routes = ExpectedRoutes(ds[i])]]]

---------------------------------------------------------------------------
(* C4 *)

\* C4: fix_common_issues applied to its own result changes nothing.
C4_RepairIdempotent ==
    /\ fix_common_issues(fix_common_issues(input)) = fix_common_issues(input)
    /\ "repair" \in Elems(steps) => fix_common_issues(data) = data

\* a repaired document that lost a stop and kept a route
C4_Witness ==
    /\ pc = "revalidate"
    /\ data # input
    /\ \E r \in RoutesOf(data) : Len(r.stops) = 2
    /\ \E r \in RoutesOf(input) : Len(r.stops) = 3

---------------------------------------------------------------------------
(* C5 *)

NoRepairOrder == <<"validate", "emit", "score">>
RepairOrder == <<"validate", "repair", "validate", "emit", "score">>

\* C5: run calls validate, then repair and validate again exactly when the
\* first report has errors, then emit, then score; repair is never called a
\* second time; the report run keeps is the one of the last validation.
C5_RunOrder ==
    /\ IsPrefix(steps, NoRepairOrder) \/ IsPrefix(steps, RepairOrder)
    /\ Len(steps) >= 2 => (steps[2] = "repair" <=> ~reports[1].valid)
    /\ pc = "done" => steps \in {NoRepairOrder, RepairOrder}
    /\ reports # <<>> => validation = reports[Len(reports)]
    /\ pc \in {"emit", "score", "save", "done"} => validation = validate_data(data)

\* a finished run whose second validation still reported errors
C5_Witness ==
    /\ pc = "done"
    /\ steps = RepairOrder
    /\ ~validation.valid

---------------------------------------------------------------------------
(* C6 *)

\* C6: run ends, for every document, with both artifacts written and without
\* an exception, also when the document is still invalid after the repair; the
\* report it writes holds the errors that remain.
C6_RunEmitsEveryDocument ==
    /\ pc \notin {"KeyError", "TypeError"}
    /\ pc = "done" =>
          /\ written = {"shuttle_routes.json", "validation_report.json"}
          /\ validation = validate_data(data)

---------------------------------------------------------------------------
(* C7 *)

\* C7: every route of the document run emits has at least 2 stops, all of them
\* with coordinates inside the bounding box, whether repair ran or not.
C7_EmittedRoutesHaveTwoStops ==
    Emitted =>
        \A r \in RoutesOf(final_data) :
            /\ Len(r.stops) >= 2
            /\ \A st \in StopsIn(r) : InBox(st)

---------------------------------------------------------------------------
(* C8 *)

\* the routes of a document, by position
RouteIndex(doc) ==
    UNION {{<<i, j>> : j \in 1..Len(doc.districts[i].routes)} :
              i \in 1..Len(doc.districts)}

\* validate_route finds no error in the route (it may find warnings)
WarningsOnly(doc, ij) ==
    LET d == doc.districts[ij[1]]
    IN  validate_route(d.routes[ij[2]], Get(d.district)).errors = <<>>

\* the route is in the emitted document, under its district
Retained(doc, ij) ==
    LET d == doc.districts[ij[1]]
    IN  \E e \in DistrictsOf(final_data) :
            /\ e.district = d.district
            /\ route_entry(d.routes[ij[2]], d.district) \in RoutesIn(e)

\* the fields of an emitted route that say something: neither null, nor empty,
\* nor the sentinel
InfoCount(r) ==
    (IF r.hours \in {Null, "", NO_INFO} THEN 0 ELSE 1)
    + (IF r.interval \in {Null, "", NO_INFO} THEN 0 ELSE 1)

\* what the emitted routes add up to in the numerator of the completeness
InfoTotal(doc) ==
    LET rs == all_routes(doc)
    IN  Sum([k \in 1..Len(rs) |-> InfoCount(rs[k])])

\* the completeness counts every emitted route in its denominator and, in its
\* numerator, nothing for a route without hours and without interval
C8_Completeness ==
    LET n == Len(all_routes(final_data))
    IN  /\ quality.total_routes = n
        /\ quality.info_completeness =
              IF n = 0 THEN 0 ELSE RoundTenths(100 * InfoTotal(final_data), 2 * n)

---------------------------------------------------------------------------
(* C9 *)

\* the stops of a document, by position
StopIndex(doc) ==
    UNION {{<<ij[1], ij[2], k>> :
               k \in 1..Len(doc.districts[ij[1]].routes[ij[2]].stops)} :
              ij \in RouteIndex(doc)}

RouteAt(doc, ij) == doc.districts[ij[1]].routes[ij[2]]
StopAt(doc, ijk) == doc.districts[ijk[1]].routes[ijk[2]].stops[ijk[3]]

\* the number of entries of a list whose kind is among kinds
CountKind(list, kinds) == Cardinality({n \in 1..Len(list) : list[n].kind \in kinds})

ErrorKinds == {ROUTE_NO_NAME, STOP_NO_NAME, STOP_NO_COORD, DISTRICT_NO_NAME,
               NO_DISTRICTS} \cup CoordinateErrors
WarningKinds == {NOT_SEOUL, FEW_STOPS, NO_HOURS, NO_INTERVAL, NO_ROUTES}

\* the report has one entry for each finding in the districts numbered in ds:
\* errors for routes and stops without name, stops without coordinates and
\* coordinates outside the box, warnings for names outside the 25, short routes
\* and routes without hours or interval; and no kind is in the other list
Classified(doc, report, ds) ==
    LET routes == {ij \in RouteIndex(doc) : ij[1] \in ds}
        stops == {ijk \in StopIndex(doc) : ijk[1] \in ds}
        errors == report.errors
        warnings == report.warnings
    IN  /\ CountKind(errors, {ROUTE_NO_NAME})
             = Cardinality({ij \in routes : ~Truthy(RouteAt(doc, ij).name)})
        /\ CountKind(errors, {STOP_NO_NAME})
             = Cardinality({ijk \in stops : ~Truthy(StopAt(doc, ijk).name)})
        /\ CountKind(errors, {STOP_NO_COORD})
             = Cardinality({ijk \in stops : ~Present(StopAt(doc, ijk))})
        /\ CountKind(errors, CoordinateErrors)
             = Cardinality({ijk \in stops : /\ Present(StopAt(doc, ijk))
                                            /\ ~InBox(StopAt(doc, ijk))})
        /\ CountKind(warnings, {NOT_SEOUL})
             = Cardinality({i \in ds : /\ Truthy(doc.districts[i].district)
                                       /\ doc.districts[i].district \notin SEOUL_DISTRICTS})
        /\ CountKind(warnings, {FEW_STOPS})
             = Cardinality({ij \in routes : Len(RouteAt(doc, ij).stops) < 2})
        /\ CountKind(warnings, {NO_HOURS})
             = Cardinality({ij \in routes : ~Truthy(RouteAt(doc, ij).hours)})
        /\ CountKind(warnings, {NO_INTERVAL})
             = Cardinality({ij \in routes : ~Truthy(RouteAt(doc, ij).interval)})
        /\ CountKind(errors, WarningKinds) = 0
        /\ CountKind(warnings, ErrorKinds) = 0

NamedDistricts(doc) == {i \in 1..Len(doc.districts) : Truthy(doc.districts[i].district)}

---------------------------------------------------------------------------
(* C10 *)

\* the three percentages, in tenths, are between 0 and 100
InRange(q) ==
    /\ 0 <= q.district_coverage /\ q.district_coverage <= 1000
    /\ 0 <= q.info_completeness /\ q.info_completeness <= 1000
    /\ 0 <= q.overall_score /\ q.overall_score <= 1000

AllZero(q) ==
    q.district_coverage = 0 /\ q.info_completeness = 0 /\ q.overall_score = 0

\* C10: calculate_quality_score gives three percentages within [0, 100] for
\* every document, with more than 25 district entries too, and three zeros
\* for the document without districts; so for the document run emits.
C10_ScoresInRange ==
    /\ InRange(calculate_quality_score(input))
    /\ input.districts = <<>> => AllZero(calculate_quality_score(input))
    /\ pc \in {"save", "done"} =>
          /\ InRange(quality)
          /\ final_data.districts = <<>> => AllZero(quality)

\* a finished run on 26 district entries: the coverage is 100
C10_Witness ==
    /\ pc = "done"
    /\ quality.total_districts = 26
    /\ quality.district_coverage = 1000
    /\ quality.overall_score = 1000

---------------------------------------------------------------------------
(* C11 *)

\* the district names of a document, each once
DistinctNames(doc) == {doc.districts[i].district : i \in 1..Len(doc.districts)}

\* a value of hours or interval that is neither absent nor the sentinel
NonDefault(v) == v \notin {Absent, Null, "", NO_INFO}

\* The reference formulas, in tenths and rounded as the report is:
\*   coverage = min(distinct district names / 25 * 100, 100)
\*   completeness = (routes with hours + routes with interval)
\*                    / (2 * routes) * 100, and 0 without routes
\*   overall = (coverage + completeness) / 2
ReferenceScore(doc) ==
    LET routes == all_routes(doc)
        n == Len(routes)
        cov == Min(Cardinality(DistinctNames(doc)) * 100, 2500)
        comp == 100 * (Cardinality({i \in 1..n : NonDefault(routes[i].hours)})
                       + Cardinality({i \in 1..n : NonDefault(routes[i].interval)}))
        den == IF n > 0 THEN 2 * n ELSE 1
    IN  [district_coverage |-> RoundTenths(cov, 25),
         info_completeness |-> IF n > 0 THEN RoundTenths(comp, den) ELSE 0,
         overall_score |-> RoundTenths(cov * den + (IF n > 0 THEN comp ELSE 0) * 25,
                                       50 * den)]

MatchesReference(q, doc) ==
    LET ref == ReferenceScore(doc)
    IN  /\ q.district_coverage = ref.district_coverage
        /\ q.info_completeness = ref.info_completeness
        /\ q.overall_score = ref.overall_score

\* C11: the report of calculate_quality_score has the coverage, completeness
\* and overall score of the reference formulas, the coverage counting the
\* distinct district names, for every document and so for the one run emits.
C11_MatchesReference ==
    /\ MatchesReference(calculate_quality_score(input), input)
    /\ pc \in {"save", "done"} => MatchesReference(quality, final_data)

---------------------------------------------------------------------------
(* C12 *)

\* C12: on a document without districts every report of validate_data, the
\* one made after the repair pass too, has valid = FALSE and the one error
\* "no district data"; run makes the repair pass, emits a document without
\* districts, and the overall score of its quality report is 0.
C12_EmptyDocument ==
    input.districts = <<>> =>
        /\ \A i \in 1..Len(reports) :
              /\ ~reports[i].valid
              /\ reports[i].errors = <<Msg(NO_DISTRICTS, "", "", 0)>>
        /\ IsPrefix(steps, RepairOrder)
        /\ pc \notin {"KeyError", "TypeError"}
        /\ pc \in {"save", "done"} => quality.overall_score = 0
        /\ pc = "done" =>
              /\ steps = RepairOrder
              /\ Len(reports) = 2
              /\ validation = reports[2]
              /\ final_data.districts = <<>>

\* a finished run on the document without districts
C12_Witness ==
    /\ input.districts = <<>>
    /\ pc = "done"
    /\ steps = RepairOrder
    /\ validation.error_count = 1
    /\ quality.overall_score = 0

---------------------------------------------------------------------------
(* C13 *)

\* the district entries generate_final_json takes over: those with routes
WithRoutes(doc) == SelectSeq(doc.districts, LAMBDA d : d.routes # <<>>)

\* out is doc's district entry src: its routes in src's order, each with its
\* stops in the order of src's route
SameRoutes(out, src) ==
    /\ out.district = src.district
    /\ Len(out.routes) = Len(src.routes)
    /\ \A j \in 1..Len(out.routes) :
          /\ out.routes[j].name = GetDefault(src.routes[j].name, ShuttleName(src.district))
          /\ Len(out.routes[j].stops) = Len(src.routes[j].stops)
          /\ \A k \in 1..Len(out.routes[j].stops) :
                /\ out.routes[j].stops[k].name = src.routes[j].stops[k].name
                /\ out.routes[j].stops[k].lat = src.routes[j].stops[k].lat
                /\ out.routes[j].stops[k].lng = src.routes[j].stops[k].lng

\* the stop is an object of the three keys name, lat and lng
ExactlyNameLatLng(stop) ==
    /\ DOMAIN stop = {"name", "lat", "lng"}
    /\ stop.name # Absent

\* the districts of the emitted document are those of data that have routes,
\* in ascending order of name, each with its routes and their stops in order
InCanonicalOrder ==
    LET out == final_data.districts
        src == WithRoutes(data)
    IN  /\ \A i \in 1..(Len(out) - 1) :
              NameRank(out[i].district) <= NameRank(out[i + 1].district)
        /\ Len(out) = Len(src)
        /\ \A i \in 1..Len(out) : \E j \in 1..Len(src) : SameRoutes(out[i], src[j])
        /\ \A j \in 1..Len(src) : \E i \in 1..Len(out) : SameRoutes(out[i], src[j])

\* C13: the document generate_final_json returns has its districts in
\* ascending order of name whatever the order of the input, each district's
\* routes in the input's order and each route's stops in the input's order,
\* and every stop of it is an object of exactly the keys name, lat and lng.
C13_CanonicalDocument ==
    Emitted =>
        /\ InCanonicalOrder
        /\ \A s \in StopsOf(final_data) : ExactlyNameLatLng(s)

---------------------------------------------------------------------------
(* C14 *)

\* the routes the emitted document has for the extracted route of that name
\* in that district
EmittedRoutesOf(district, name) ==
    UNION {{r \in RoutesIn(d) : r.name = name} :
              d \in {e \in DistrictsOf(final_data) : e.district = district}}

\* the value emitted for an extracted hours or interval: the sentinel for null
EmittedField(v) == IF v = Null THEN NO_INFO ELSE v

\* C14: in the document run emits after the geocoding stage every route's
\* hours and interval are strings, never null: the sentinel "no information"
\* where the extractor found nothing, and the extracted text otherwise.
C14_HoursAndIntervalNeverNull ==
    Emitted /\ extracted # NONE =>
        /\ \A r \in RoutesOf(final_data) :
              /\ r.hours \notin {Null, Absent}
              /\ r.interval \notin {Null, Absent}
        /\ \A d \in DistrictsOf(extracted) : \A r \in RoutesIn(d) :
              \A e \in EmittedRoutesOf(d.district, r.name) :
                  /\ e.hours = EmittedField(r.hours)
                  /\ e.interval = EmittedField(r.interval)

---------------------------------------------------------------------------
(* C15 *)

\* stop k of the geocoded route out is the extracted stop name place, with
\* the coordinates of the result, or with none
Attached(stop, place, result) ==
    /\ stop.name = place
    /\ IF result.found
       THEN stop.lat = Num(result.lat) /\ stop.lng = Num(result.lng)
       ELSE stop.lat = NullC /\ stop.lng = NullC

\* the geocoded document has every district, route and stop of the extracted
\* one, in order
NothingRemoved ==
    /\ Len(input.districts) = Len(extracted.districts)
    /\ \A i \in 1..Len(input.districts) :
          LET d == extracted.districts[i]
              out == input.districts[i]
          IN  /\ out.district = d.district
              /\ Len(out.routes) = Len(d.routes)
              /\ \A j \in 1..Len(out.routes) :
                    /\ Len(out.routes[j].stops) = Len(d.routes[j].stops)
                    /\ \A k \in 1..Len(out.routes[j].stops) :
                          Attached(out.routes[j].stops[k], d.routes[j].stops[k],
                                   cache[CacheKey(d.routes[j].stops[k], d.district)])

\* the cache keys for which geocode returned None
Unresolved == {key \in DOMAIN cache : ~cache[key].found}

\* C15: geocode_routes removes no stop, route or district: a stop without a
\* geocoding result stays in its route without coordinates, the first
\* validation reports it as a stop without coordinates, and the repair pass
\* is what takes it out of the emitted document.
C15_UnresolvedStopsStay ==
    pc # "geocode" /\ extracted # NONE =>
        /\ NothingRemoved
        /\ reports # <<>> =>
              \A key \in Unresolved :
                  \E m \in Elems(reports[1].errors) :
                      m.kind = STOP_NO_COORD /\ m.subj = key[1]
        /\ Unresolved # {} /\ Len(steps) >= 2 => steps[2] = "repair"
        /\ Emitted =>
              \A key \in Unresolved :
                  \A d \in DistrictsOf(final_data) : \A r \in RoutesIn(d) :
                      \A s \in StopsIn(r) : d.district = key[2] => s.name # key[1]

---------------------------------------------------------------------------
(* C16 *)

\* the normalized key of a stop name: its characters that are neither white
\* space nor digits
StopKey(name) == SelectSeq(name, LAMBDA c : c \notin Whitespaces \cup Digits)

\* the indices of the names that are the first of the list with their key
FirstOfKey(names) ==
    {i \in 1..Len(names) : \A j \in 1..(i - 1) : StopKey(names[j]) # StopKey(names[i])}

\* the names at the indices of I, in the order of the list
Picked(names, I) ==
    [k \in 1..Cardinality(I) |->
        names[CHOOSE i \in I : Cardinality({j \in I : j < i}) = k - 1]]

DistinctKeys(names) ==
    \A i \in 1..Len(names) : \A j \in 1..Len(names) :
        StopKey(names[i]) = StopKey(names[j]) => i = j

\* deduplicate_stops has returned `unique` for the list `stop_list`
Deduplicated == pc \in {"again", "return", "done"}

\* C16: the list deduplicate_stops returns is the subsequence of its input
\* made of the first element of each normalized key, with its text as it was
\* and in the input's order; so the stops extract_stops returns have pairwise
\* distinct normalized keys.
C16_FirstOfEachKey ==
    /\ Deduplicated =>
          /\ unique = Picked(stop_list, FirstOfKey(stop_list))
          /\ DistinctKeys(unique)
    /\ pc = "done" /\ parsed # NONE =>
          /\ parsed.stops = extract_stops(block_text)
          /\ DistinctKeys(parsed.stops)

\* extract_stops on "가가역 1": the pattern gives "가가역 1", the keywords
\* "가가역", and the second is dropped for having the key of the first
C16_Witness ==
    /\ pc = "done"
    /\ parsed # NONE
    /\ stop_list = << <<"ga", "ga", "yeok", " ", "1">>, <<"ga", "ga", "yeok">> >>
    /\ parsed.stops = << <<"ga", "ga", "yeok", " ", "1">> >>

---------------------------------------------------------------------------
(* C17 *)

\* C17: deduplicate_stops applied to a list it has returned returns that list.
C17_DedupIdempotent ==
    /\ pc = "done" /\ parsed = NONE => unique = stop_list
    /\ Deduplicated => deduplicate_stops(unique) = unique

\* the second call on a list of two names the first call has returned, one
\* of them with a space and a digit
C17_Witness ==
    /\ pc = "done"
    /\ parsed = NONE
    /\ stop_list = << <<"ga", "ga", "yeok", " ", "1">>, <<"na", "na", "yeok">> >>
    /\ unique = stop_list

---------------------------------------------------------------------------
(* C18 *)

\* the validity of a stop name: a key that is not empty, 3 to 30 characters,
\* a stop keyword inside, no exclude keyword inside
ValidStop(name) ==
    /\ StopKey(name) # <<>>
    /\ 3 <= Len(name) /\ Len(name) <= 30
    /\ \E w \in 1..Len(stop_keywords) : In(stop_keywords[w], name)
    /\ \A e \in 1..Len(exclude_keywords) : ~In(exclude_keywords[e], name)

\* C18: every stop name extract_stops holds after the pass of the pattern and
\* after the pass of the keywords, and every one it returns, is valid: no
\* candidate that fails the validity is emitted.
C18_EmittedStopsValid ==
    parsed # NONE =>
        /\ pc \in {"keyword", "deduplicate", "return", "done"} =>
              \A k \in 1..Len(stop_list) : ValidStop(stop_list[k])
        /\ pc \in {"return", "done"} =>
              \A k \in 1..Len(unique) : ValidStop(unique[k])
        /\ pc = "done" =>
              \A k \in 1..Len(parsed.stops) : ValidStop(parsed.stops[k])

\* extract_stops on "역가가": the pattern finds nothing (no suffix follows
\* two syllables), the pass of the keywords gives "역가가"
C18_Witness ==
    /\ pc = "done"
    /\ parsed # NONE
    /\ block_text = <<"yeok", "ga", "ga">>
    /\ pattern_pass(block_text) = <<>>
    /\ parsed.stops = << <<"yeok", "ga", "ga">> >>

---------------------------------------------------------------------------
(* C19 *)

\* C19: on the block of Scenario A parse_route_block returns the stops
\* "영등포역 1번출구" and "여의도역", the hours "09:00~18:00" and the
\* interval "30분".
C19_ScenarioA ==
    pc = "done" /\ parsed # NONE /\ block_text = ScenarioA =>
        /\ parsed.stops = << <<"yeong", "deung", "po", "yeok", " ", "1", "beon", "chul", "gu">>,
                             <<"yeo", "ui", "do", "yeok">> >>
        /\ parsed.hours = <<"0", "9", ":", "0", "0", "~", "1", "8", ":", "0", "0">>
        /\ parsed.interval = <<"3", "0", "bun">>

---------------------------------------------------------------------------
(* C20 *)

\* the lines of the text given to split_by_district
LinesOf(s) == SplitOn({"NL"}, s)

\* line i references a district and the buffer open before it, if any, is of
\* another district: line i opens a buffer
Opens(lines, i) ==
    /\ district_in(lines[i]) # NoText
    /\ \A j \in 1..(i - 1) :
          district_in(lines[j]) = district_in(lines[i]) =>
              \E k \in (j + 1)..(i - 1) :
                  district_in(lines[k]) \notin {NoText, district_in(lines[i])}

\* the index of the first line after line i that references a district other
\* than that of line i, and the index after the last line when there is none
SpanEnd(lines, i) ==
    CHOOSE j \in (i + 1)..(Len(lines) + 1) :
        /\ \A k \in (i + 1)..(j - 1) :
              district_in(lines[k]) \in {NoText, district_in(lines[i])}
        /\ j = Len(lines) + 1
              \/ district_in(lines[j]) \notin {NoText, district_in(lines[i])}

\* C20: while split_by_district reads the lines, the open buffer holds every
\* line from the one that opened it to the last one read, lines that mention
\* the open district again included; and the span it returns for a district
\* is the lines from a line that opened the district's buffer up to, and
\* without, the next line that references another district.
C20_SpanUntilOtherDistrict ==
    full_text # NONE =>
        LET lines == LinesOf(full_text)
            read == Len(lines) - Len(todo)
        IN  /\ current_district # NoText =>
                  \E i \in 1..read :
                      /\ Opens(lines, i)
                      /\ SpanEnd(lines, i) > read
                      /\ district_in(lines[i]) = current_district
                      /\ current_lines = SubSeq(lines, i, read)
            /\ pc = "done" =>
                  \A d \in DOMAIN blocks :
                      \E i \in 1..Len(lines) :
                          /\ Opens(lines, i)
                          /\ district_in(lines[i]) = d
                          /\ blocks[d] = Join(<<"NL">>,
                                              SubSeq(lines, i, SpanEnd(lines, i) - 1))

---------------------------------------------------------------------------
(* C21 *)

\* the line has a keyword of some district and the name of none
AliasOnly(line) ==
    /\ district_in(line) = NoText
    /\ identify_district(line) # NoText

\* C21: when split_by_district reads a line that has a keyword of a district
\* and the name of no district, it does what it does for a line with the name
\* of that district: it flushes the open buffer into blocks and opens the
\* buffer of that district with the line as its first line.
C21_KeywordOpensBuffer ==
    [][(pc = "lines" /\ todo # <<>> /\ AliasOnly(Head(todo))) =>
          /\ current_district' = identify_district(Head(todo))
          /\ current_lines' = <<Head(todo)>>
          /\ blocks' = flushed(blocks, current_district, current_lines)]_vars

---------------------------------------------------------------------------
(* C22 *)

\* the stage tests for an upstream artifact and the artifact is not on disk
MissingInput(stage_id) ==
    stage_id \in DOMAIN upstream /\ files[upstream[stage_id]] = "absent"

\* C22: when run_pipeline runs the geocode or the validate stage and the
\* upstream artifact of the stage is missing, the stage returns its failure
\* marker without raising, it writes no artifact, and the pipeline records the
\* stage as a failure: success is False and the stage is counted in failed,
\* not in completed.
C22_MissingInputIsFailure ==
    [][(pc = "stages" /\ MissingInput(Head(stages_to_run))) =>
          LET stage_id == Head(stages_to_run)
          IN  /\ results'[stage_id].result = "error"
              /\ results'[stage_id].error = "None"
              /\ files' = files
              /\ ~results'[stage_id].success
              /\ failed' = failed + 1
              /\ completed' = completed]_vars

---------------------------------------------------------------------------
(* C28 *)

\* the place of a stage in the fixed order
Rank(stage_id) == CHOOSE i \in 1..Len(stage_ids) : stage_ids[i] = stage_id

\* the stages the call selects: those of `stages`, all of them when `stages`
\* is None or empty; without those of `skip_stages`
Selected ==
    {s \in Elems(stage_ids) :
        /\ ListTruthy(stages_arg) => s \in Elems(stages_arg)
        /\ ListTruthy(skip_stages) => s \notin Elems(skip_stages)}

\* the stage raised, or returned a marker of failure
FailedStage(outcome) == ~outcome.success \/ outcome.result = "error"

\* C28: run_pipeline runs a stage only after all stages before it in the
\* order crawler, ocr, nlp, geocode, validate and never twice; it runs only
\* selected, not skipped stages; with continue_on_error = False it runs no
\* stage once a stage has failed; and with continue_on_error = True it has run
\* every selected stage when it returns.
C28_FixedOrder ==
    /\ [][pc = "stages" =>
             LET stage_id == Head(stages_to_run)
             IN  /\ \A e \in DOMAIN results : Rank(e) < Rank(stage_id)
                 /\ stage_id \in Selected
                 /\ ~continue_on_error =>
                        \A e \in DOMAIN results : ~FailedStage(results[e])]_vars
    /\ [](pc = "done" /\ pipeline_report # NONE /\ continue_on_error = TRUE =>
             DOMAIN pipeline_report.stages = Selected)

---------------------------------------------------------------------------
(* C23 and C27 *)

\* the report caller c holds, as it reads now
ReportHeld(c) ==
    [callers[c].result EXCEPT !.errors = heap[@], !.warnings = heap[@]]

\* the report of a caller that has returned is that of its document alone
OwnReports ==
    \A c \in Callers :
        callers[c].pc = "returned" => ReportHeld(c) = validate_data(callers[c].data)

\* C23: under every interleaving of the validate_data calls of two callers on
\* independent documents, on one validator or on two, the report each caller
\* holds from its return on is the report of its document validated alone.
C23_NoSharedState == callers # NONE => OwnReports

\* C27: when the validate_data calls on one validator come one after the
\* other, the report of each call holds the findings of its own document and
\* no other, and the report of the first call still does after the second
\* call has run.
C27_ReportOfThisCallOnly ==
    (callers # NONE /\ ~parallel /\ callers[2].self = callers[1].self) => OwnReports

C27_Witness ==
    /\ callers # NONE
    /\ ~parallel
    /\ callers[2].self = callers[1].self
    /\ callers[1].pc = "returned"
    /\ callers[2].pc = "returned"
    /\ callers[1].result.error_count > 0
    /\ callers[2].result.error_count > 0
    /\ ReportHeld(1) # ReportHeld(2)

---------------------------------------------------------------------------
(* C25 *)

\* run has repaired the document
RepairRan == \E k \in 1..Len(steps) : steps[k] = "repair"

---------------------------------------------------------------------------
(* C26 *)

\* the errors that are about the coordinates of a stop
CoordinateFindings == CoordinateErrors \cup {STOP_NO_COORD}

NameFindings == {DISTRICT_NO_NAME, ROUTE_NO_NAME, STOP_NO_NAME}

\* the errors of a report after repair are about names, or the one error of a
\* document that repair has left without districts
OnlyNameErrors(report, repaired) ==
    \A m \in Elems(report.errors) :
        /\ m.kind \notin CoordinateFindings
        /\ \/ m.kind \in NameFindings
           \/ m.kind = NO_DISTRICTS /\ repaired.districts = <<>>

\* C26: validate_data of a repaired document reports no missing coordinate
\* and no coordinate out of range or not a number; its errors are a missing
\* district name, route name or stop name, or "no district data" when repair
\* has removed every district.  So is the second report of run.
C26_RevalidationErrors ==
    input # NONE =>
        /\ OnlyNameErrors(validate_data(fix_common_issues(input)),
                          fix_common_issues(input))
        /\ (RepairRan /\ Len(reports) = 2) => OnlyNameErrors(reports[2], data)

\* the first report has an error about coordinates and the second report,
\* after repair, has the error of a stop without name
C26_Witness ==
    /\ input # NONE
    /\ RepairRan
    /\ Len(reports) = 2
    /\ \E m \in Elems(reports[1].errors) : m.kind \in CoordinateFindings
    /\ \E m \in Elems(reports[2].errors) : m.kind = STOP_NO_NAME

---------------------------------------------------------------------------
(* C29 *)

\* a pair of coordinates in ten-thousandths of a degree is inside the box of
\* the validator, whose edges are in hundredths
InValidatorBox(coords) ==
    /\ min_lat * 100 <= coords[1] /\ coords[1] <= max_lat * 100
    /\ min_lng * 100 <= coords[2] /\ coords[2] <= max_lng * 100

\* C29: every entry of the landmark table and of the table of district
\* centres of geocode_fallback is inside the box [37.42, 37.72] x
\* [126.76, 127.18] of the validator, and so is every pair geocode_fallback
\* returns.
C29_FallbackInsideBox ==
    /\ \A k \in 1..Len(landmarks) : InValidatorBox(landmarks[k].coords)
    /\ \A k \in 1..Len(district_centers) : InValidatorBox(district_centers[k])
    /\ (pc = "done" /\ fb_coords # NoPoint) => InValidatorBox(fb_coords)

\* geocode_fallback has returned the centre of 금천구, the southernmost entry
C29_Witness ==
    /\ pc = "done"
    /\ fb_place = <<"ga", "ga", "yeok">>
    /\ fb_district = <<"geum", "cheon", "gu">>
    /\ fb_coords = <<374569, 1268955>>

---------------------------------------------------------------------------
(* C30 *)

\* C30: called with the name of a landmark of its table as place, whatever
\* the district, geocode_fallback returns the coordinates the table lists
\* for that landmark.
C30_LandmarkGetsOwnCoordinates ==
    pc = "done" =>
        \A k \in 1..Len(landmarks) :
            fb_place = landmarks[k].name => fb_coords = landmarks[k].coords

---------------------------------------------------------------------------
(* C24 *)

\* C24: in one run of a GeocodingService, a geocode call with the place and
\* the district of an earlier call returns what that call returned, the same
\* coordinates or None, and takes it from the cache: neither the provider
\* nor the fallback is asked again.
C24_GeocodeIdempotent ==
    pc = "lookups" =>
        \A i \in 1..Len(lookups) : \A j \in (i + 1)..Len(lookups) :
            (lookups[j].place = lookups[i].place
                /\ lookups[j].district = lookups[i].district) =>
                /\ lookups[j].coords = lookups[i].coords
                /\ lookups[j].source = "cache"

\* a place without result and a place the provider has found are each asked
\* for twice
C24_Witness ==
    /\ pc = "lookups"
    /\ Len(lookups) = 3
    /\ lookups[1].source = "fallback"
    /\ lookups[1].coords = NoPoint
    /\ lookups[2].source = "provider"
    /\ lookups[3].place = lookups[1].place
    /\ lookups[3].district = lookups[1].district
    /\ lookups[3].source = "cache"
    /\ stats = [cache_hits |-> 1, api_calls |-> 1, failures |-> 1]

=============================================================================
